---- MODULE Spec2Model ----
(***************************************************************************)
(* A state-machine model of Functions/Mesh.py (class Triangle_mesh): the   *)
(* construction of the mesh context, the extended mesh, the incidence      *)
(* operator d1, the homology rows H, and the per-request operations        *)
(* (compute_thetas, reconstruct_corners_from_thetas, ...).                 *)
(*                                                                         *)
(* Conventions.  Python arrays are TLA+ sequences read with 0-based        *)
(* indices through At(s, i); a face is a triple <<a, b, c>> of vertex ids. *)
(* Angles are integers in degrees (Pi == 180); the point sets used in the  *)
(* requests are chosen so that every angle the code computes on them is a  *)
(* whole number of degrees and every tolerance test (np.isclose, < 1e-6)   *)
(* is decided by integer equality.                                         *)
(***************************************************************************)
EXTENDS Integers, Sequences, FiniteSets, TLC

(***************************************************************************)
(* Arrays                                                                  *)
(***************************************************************************)
At(xs, xi) == xs[xi + 1]

Idx(xs) == 0 .. (Len(xs) - 1)

Range(xs) == {xs[k] : k \in 1 .. Len(xs)}

\* the elements of a finite set of indices (integers from 0 on) in
\* increasing order (np.where)
SortSet(xS) ==
    IF xS = {} THEN <<>>
    ELSE LET top == CHOOSE y \in xS : \A z \in xS : z <= y
         IN SelectSeq([i \in 1 .. (top + 1) |-> i - 1], LAMBDA i : i \in xS)

RECURSIVE SortPairs(_)
\* the elements of a finite set of pairs in lexicographic order
SortPairs(xS) ==
    IF xS = {} THEN <<>>
    ELSE LET least == CHOOSE y \in xS : \A z \in xS :
                         \/ y[1] < z[1]
                         \/ y[1] = z[1] /\ y[2] <= z[2]
         IN <<least>> \o SortPairs(xS \ {least})

Min2(xa, xb) == IF xa <= xb THEN xa ELSE xb

Max2(xa, xb) == IF xa <= xb THEN xb ELSE xa

Abs(xa) == IF xa < 0 THEN -xa ELSE xa

Reverse2(xp) == <<xp[2], xp[1]>>

RECURSIVE SeqWithout(_, _)
\* the elements of the sequence s that are not in the set S, in order
SeqWithout(xs, xS) ==
    IF xs = <<>> THEN <<>>
    ELSE (IF Head(xs) \in xS THEN <<>> ELSE <<Head(xs)>>)
             \o SeqWithout(Tail(xs), xS)

(***************************************************************************)
(* Real numbers.  An angle is deg degrees plus a sum of terms that the     *)
(* model does not evaluate: <<c, "rotation", i>> is c times the rotation   *)
(* np.angle(U[1] / U[0]) found for the edge-face i, and <<c, "G_V", v>>    *)
(* is c times the angle defect compute_angle_defect gives the vertex v.    *)
(***************************************************************************)
Ang(xdeg) == [deg |-> xdeg, sym |-> <<>>]

Term(xcoef, xname, xi) == [deg |-> 0, sym |-> <<<<xcoef, xname, xi>>>>]

AddAng(xa, xb) == [deg |-> xa.deg + xb.deg, sym |-> xa.sym \o xb.sym]

NegAng(xa) ==
    [deg |-> -xa.deg,
     sym |-> [k \in 1 .. Len(xa.sym) |->
                 <<-xa.sym[k][1], xa.sym[k][2], xa.sym[k][3]>>]]

(***************************************************************************)
(* Input meshes (V, F)                                                     *)
(***************************************************************************)
\* a regular tetrahedron: closed, genus 0
TetraMesh ==
    [ name |-> "tetra",
      V |-> << <<3, 3, 3>>, <<3, -3, -3>>, <<-3, 3, -3>>, <<-3, -3, 3>> >>,
      F |-> << <<0, 1, 2>>, <<0, 3, 1>>, <<0, 2, 3>>, <<1, 3, 2>> >> ]

\* a flat rectangular patch: two triangles sharing the diagonal 0-2
PatchMesh ==
    [ name |-> "patch",
      V |-> << <<0, 0, 0>>, <<6, 0, 0>>, <<6, 6, 0>>, <<0, 6, 0>> >>,
      F |-> << <<0, 1, 2>>, <<0, 2, 3>> >> ]

\* the 6-vertex triangulation of the projective plane: closed, every edge
\* in two faces, Euler characteristic 1
RP2Mesh ==
    [ name |-> "rp2",
      V |-> << <<6, 0, 0>>, <<0, 6, 0>>, <<0, 0, 6>>,
               <<-6, 1, 0>>, <<0, -6, 1>>, <<1, 0, -6>> >>,
      F |-> << <<0, 1, 2>>, <<0, 2, 3>>, <<0, 3, 4>>, <<0, 4, 5>>, <<0, 5, 1>>,
               <<1, 2, 4>>, <<2, 3, 5>>, <<3, 4, 1>>, <<4, 5, 2>>, <<5, 1, 3>> >> ]

\* the 3 x 3 grid triangulation of the torus: closed, genus 1
TorusMesh ==
    [ name |-> "torus",
      V |-> << <<3, 0, 0>>, <<1, 0, 1>>, <<1, 0, -1>>,
               <<0, 3, 0>>, <<0, 1, 1>>, <<0, 1, -1>>,
               <<-3, -3, 0>>, <<-1, -1, 1>>, <<-1, -1, -1>> >>,
      F |-> << <<0, 3, 4>>, <<0, 4, 1>>, <<1, 4, 5>>, <<1, 5, 2>>,
               <<2, 5, 3>>, <<2, 3, 0>>, <<3, 6, 7>>, <<3, 7, 4>>,
               <<4, 7, 8>>, <<4, 8, 5>>, <<5, 8, 6>>, <<5, 6, 3>>,
               <<6, 0, 1>>, <<6, 1, 7>>, <<7, 1, 2>>, <<7, 2, 8>>,
               <<8, 2, 0>>, <<8, 0, 6>> >> ]

\* two tetrahedra glued at vertex 0: every edge in two faces, but the
\* Euler characteristic is 3
PinchedMesh ==
    [ name |-> "pinched",
      V |-> << <<0, 0, 0>>, <<6, 0, 0>>, <<0, 6, 0>>, <<0, 0, 6>>,
               <<-6, 0, 0>>, <<0, -6, 0>>, <<0, 0, -6>> >>,
      F |-> << <<0, 1, 2>>, <<0, 3, 1>>, <<0, 2, 3>>, <<1, 3, 2>>,
               <<0, 4, 5>>, <<0, 6, 4>>, <<0, 5, 6>>, <<4, 6, 5>> >> ]

Meshes == {TetraMesh, PatchMesh, RP2Mesh, TorusMesh, PinchedMesh}

(***************************************************************************)
(* MeshTopology: __init__                                                  *)
(***************************************************************************)
\* obtain_E (Functions/Auxiliary.py): the unique undirected edges of F,
\* each as (smaller id, larger id), in lexicographic order
obtain_E(xF) ==
    SortPairs({<<Min2(xF[i][j], xF[i][(j % 3) + 1]),
                 Max2(xF[i][j], xF[i][(j % 3) + 1])>> :
                   i \in 1 .. Len(xF), j \in 1 .. 3})

\* np.isin(F, vals).sum(axis=1) for one face
CountIn(xf, xvals) == Cardinality({j \in 1 .. 3 : xf[j] \in xvals})

\* genus = (2 - (|V| - |E| + |F|)) / 2, kept as an exact fraction num/den
GenusOf(xnV, xnE, xnF) == [num |-> 2 - (xnV - xnE + xnF), den |-> 2]

\* the faces found for one edge: np.where(np.isin(F, edge).sum(axis=1) == 2)[0]
FacesOfEdge(xF, xe) ==
    SortSet({i \in Idx(xF) : CountIn(At(xF, i), {xe[1], xe[2]}) = 2})

\* get_E_dual: one pair of faces per edge, or an error for an edge that is
\* not in exactly two faces
get_E_dual(xF, xE) ==
    IF \A i \in Idx(xE) : Len(FacesOfEdge(xF, At(xE, i))) = 2
    THEN [ok |-> TRUE, val |-> [i \in 1 .. Len(xE) |-> FacesOfEdge(xF, xE[i])]]
    ELSE [ok |-> FALSE, val |-> <<>>]

(***************************************************************************)
(* networkx primitives used by get_homology_basis.  A graph is the record  *)
(* of its nodes and of its edges, each in insertion order.                 *)
(***************************************************************************)
\* the end points of the edges es, flattened: e1[0], e1[1], e2[0], ...
EndPoints(xes) ==
    [k \in 1 .. 2 * Len(xes) |-> xes[(k + 1) \div 2][2 - (k % 2)]]

\* the elements of s without repetitions, each at its first position
FirstOccurrences(xs) ==
    LET idx == SortSet({k \in 1 .. Len(xs) :
                           \A j \in 1 .. (k - 1) : xs[j] # xs[k]})
    IN [k \in 1 .. Len(idx) |-> xs[idx[k]]]

\* the undirected edges of es without repetitions
FirstEdges(xes) ==
    LET idx == SortSet({k \in 1 .. Len(xes) :
                           \A j \in 1 .. (k - 1) :
                               xes[j] # xes[k] /\ xes[j] # Reverse2(xes[k])})
    IN [k \in 1 .. Len(idx) |-> xes[idx[k]]]

\* G = nx.Graph(); G.add_edges_from(es): the end points become nodes in the
\* order in which they appear, and an edge already present is not added again
GraphFromEdges(xes) ==
    [nodes |-> FirstOccurrences(EndPoints(xes)), edges |-> FirstEdges(xes)]

HasEdge(xG, xe) == xe \in Range(xG.edges) \/ Reverse2(xe) \in Range(xG.edges)

\* Graph.add_edge between two nodes of G
AddEdge(xG, xe) ==
    IF HasEdge(xG, xe) THEN xG
    ELSE [nodes |-> xG.nodes, edges |-> Append(xG.edges, xe)]

\* Graph.remove_edge
RemoveEdge(xG, xe) ==
    [nodes |-> xG.nodes, edges |-> SeqWithout(xG.edges, {xe, Reverse2(xe)})]

\* the position of the node n in the node order of G
NodePos(xG, xn) == CHOOSE k \in 1 .. Len(xG.nodes) : xG.nodes[k] = xn

\* the neighbours of n in the order in which their edges were added
Adj(xG, xn) ==
    LET idx == SortSet({k \in 1 .. Len(xG.edges) :
                           xn = xG.edges[k][1] \/ xn = xG.edges[k][2]})
    IN [j \in 1 .. Len(idx) |->
           IF xG.edges[idx[j]][1] = xn THEN xG.edges[idx[j]][2]
           ELSE xG.edges[idx[j]][1]]

\* Graph.edges(): node by node in node order, the edges of a node in the
\* order of its adjacency, each edge reported once, from the end point
\* that comes first in the node order
GraphEdges(xG) ==
    LET first(k) == Min2(NodePos(xG, xG.edges[k][1]),
                         NodePos(xG, xG.edges[k][2]))
        keys == SortPairs({<<first(k), k>> : k \in 1 .. Len(xG.edges)})
    IN [j \in 1 .. Len(keys) |->
           LET e == xG.edges[keys[j][2]]
           IN IF NodePos(xG, e[1]) = keys[j][1] THEN e ELSE Reverse2(e)]

RECURSIVE Component(_, _)
\* the nodes joined to the set S by the edges es
Component(xes, xS) ==
    LET grown == xS \cup {e[1] : e \in {d \in Range(xes) : d[2] \in xS}}
                    \cup {e[2] : e \in {d \in Range(xes) : d[1] \in xS}}
    IN IF grown = xS THEN xS ELSE Component(xes, grown)

\* Kruskal's algorithm on equal weights: the edges are taken in the order
\* of Graph.edges() (the sort by weight is stable), and an edge is kept
\* when the edges before it do not join its end points
Kruskal(xes) ==
    LET idx == SortSet({k \in 1 .. Len(xes) :
                   xes[k][2] \notin Component(SubSeq(xes, 1, k - 1),
                                              {xes[k][1]})})
    IN [j \in 1 .. Len(idx) |-> xes[idx[j]]]

\* nx.minimum_spanning_tree: all the nodes of G and the Kruskal edges
minimum_spanning_tree(xG) ==
    [nodes |-> xG.nodes, edges |-> Kruskal(GraphEdges(xG))]

RECURSIVE TreePath(_, _, _, _)
\* the path from u to v in the forest T as a sequence of directed edges,
\* <<>> when v is not reached; from is the node u was entered from
TreePath(xT, xu, xv, xfrom) ==
    IF xu = xv THEN <<>>
    ELSE LET nb == {n \in Range(Adj(xT, xu)) :
                      /\ n # xfrom
                      /\ xv \in Component(RemoveEdge(xT, <<xu, n>>).edges, {n})}
         IN IF nb = {} THEN <<>>
            ELSE LET nxt == CHOOSE y \in nb : TRUE
                 IN <<<<xu, nxt>>>> \o TreePath(xT, nxt, xv, xu)

\* nx.find_cycle(T, source) on a tree T plus the edge (source, w), which
\* was added last: the depth-first search leaves the source along the tree
\* and closes the cycle with the edge (w, source)
find_cycle(xT, xsource, xw) ==
    TreePath(RemoveEdge(xT, <<xsource, xw>>), xsource, xw, -1)
        \o <<<<xw, xsource>>>>

(***************************************************************************)
(* HomologyBasis: get_homology_basis                                       *)
(***************************************************************************)
\* s[mask]: the elements of s at the positions where keep is TRUE
Compress(xs, xkeep) ==
    LET kept == SelectSeq([i \in 1 .. Len(xs) |-> <<xkeep[i], xs[i]>>],
                          LAMBDA p : p[1])
    IN [k \in 1 .. Len(kept) |-> kept[k][2]]

\* E_included: the edges of self.E that are edges of the spanning tree T,
\* in either direction
IncludedIn(xT, xes) == [i \in 1 .. Len(xes) |-> HasEdge(xT, xes[i])]

\* the cotree edges E_co = self.E[~(E_included | E_dual_included)]
CotreeEdges(xE, xE_dual) ==
    LET tree == minimum_spanning_tree(GraphFromEdges(xE))
        E_included == IncludedIn(tree, xE)
        rest == Compress(xE_dual, [i \in 1 .. Len(xE) |-> ~E_included[i]])
        T_dual == minimum_spanning_tree(GraphFromEdges(rest))
        E_dual_included == IncludedIn(T_dual, xE_dual)
    IN Compress(xE, [i \in 1 .. Len(xE) |->
                        ~(E_included[i] \/ E_dual_included[i])])

\* get_homology_basis without its check of the count
CotreeCountUnchecked(xE_co, xg) == FALSE

\* len(E_co) != 2*self.genus
CotreeCountWrong(xE_co, xg) == Len(xE_co) * xg.den # 2 * xg.num

\* the cycles: each cotree edge is added to the tree, the cycle through it
\* is read off, and the edge is removed again
CyclesOf(xE, xE_co) ==
    LET tree == minimum_spanning_tree(GraphFromEdges(xE))
    IN [k \in 1 .. Len(xE_co) |->
           find_cycle(AddEdge(tree, xE_co[k]), xE_co[k][1], xE_co[k][2])]

\* get_homology_basis: the cycles, or the error it raises
get_homology_basis(xF, xE, xg) ==
    LET dual == get_E_dual(xF, xE)
    IN IF ~dual.ok
       THEN [ok |-> FALSE, err |-> "WrongNumberOfFaces", E_co |-> <<>>,
             cycles |-> <<>>]
       ELSE LET E_co == CotreeEdges(xE, dual.val)
            IN IF CotreeCountWrong(E_co, xg)
               THEN [ok |-> FALSE, err |-> "WrongCotreeCount", E_co |-> E_co,
                     cycles |-> <<>>]
               ELSE [ok |-> TRUE, err |-> "", E_co |-> E_co,
                     cycles |-> CyclesOf(xE, E_co)]

(***************************************************************************)
(* ExtendedMeshBuilder: construct_extended_mesh                            *)
(***************************************************************************)
\* F_f: face i owns the extended vertices 3i, 3i+1, 3i+2, one per corner
FaceFaces(xF) == [i \in 1 .. Len(xF) |-> <<3 * (i - 1), 3 * (i - 1) + 1, 3 * (i - 1) + 2>>]

\* V_extended: the coordinate of each corner, face by face
ExtendedVertices(xV, xF) ==
    [k \in 1 .. 3 * Len(xF) |-> At(xV, xF[((k - 1) \div 3) + 1][((k - 1) % 3) + 1])]

\* E_twin[3i + j] = [f_f[j], f_f[(j + 1) % 3]]
TwinEdges(xF) ==
    [k \in 1 .. 3 * Len(xF) |->
        <<k - 1, 3 * ((k - 1) \div 3) + ((((k - 1) % 3) + 1) % 3)>>]

\* V_map with each new corner put at the front of its list
VertexMapNewestFirst(xV, xF) ==
    [v \in 1 .. Len(xV) |->
        LET corners == SortSet({k \in 0 .. (3 * Len(xF) - 1) :
                                   xF[(k \div 3) + 1][(k % 3) + 1] = v - 1})
        IN [k \in 1 .. Len(corners) |-> corners[Len(corners) - k + 1]]]

\* V_map: the corners of each original vertex, in the order they were added
VertexMap(xV, xF) ==
    [v \in 1 .. Len(xV) |->
        SortSet({k \in 0 .. (3 * Len(xF) - 1) :
                    xF[(k \div 3) + 1][(k % 3) + 1] = v - 1})]

\* E_twin[np.all(np.isin(E_twin, indices1 + indices2), axis=1)], as indices
TwinsBetween(xE_twin, xind1, xind2) ==
    SortSet({k \in Idx(xE_twin) :
                /\ At(xE_twin, k)[1] \in Range(xind1) \cup Range(xind2)
                /\ At(xE_twin, k)[2] \in Range(xind1) \cup Range(xind2)})

\* the edge-face of one edge of self.E: [kind |-> "face", f_e |-> the four
\* corners], [kind |-> "boundary"] for one twin edge, or the error raised
EdgeFaceOf(xE_twin, xV_map, xe) ==
    LET ind1 == At(xV_map, xe[1])
        ind2 == At(xV_map, xe[2])
        tw == TwinsBetween(xE_twin, ind1, ind2)
    IN IF Len(tw) = 2
       THEN LET t1 == At(xE_twin, tw[1])
                t2 == At(xE_twin, tw[2])
                pairing1 == <<t1[1] \in Range(ind1), t1[2] \in Range(ind1)>>
                pairing2 == <<t2[1] \in Range(ind1), t2[2] \in Range(ind1)>>
            IN IF pairing1 = pairing2
               THEN [kind |-> "face", f_e |-> t1 \o Reverse2(t2)]
               ELSE IF pairing1 = Reverse2(pairing2)
               THEN [kind |-> "face", f_e |-> t1 \o t2]
               ELSE [kind |-> "NotAlignedOrOpposite", f_e |-> <<>>]
       ELSE IF Len(tw) = 1
       THEN [kind |-> "boundary", f_e |-> <<>>]
       ELSE [kind |-> "WrongNumberOfTwinEdges", f_e |-> <<>>]

\* the faces that contain the vertex v, in index order (0-based)
FacesOfVertex(xF, xv) == SortSet({i \in Idx(xF) : CountIn(At(xF, i), {xv}) = 1})

\* E_neighbours: for each face around v its two other vertices, sorted
NeighbourEdges(xF, xv) ==
    LET fs == FacesOfVertex(xF, xv)
    IN [r \in 1 .. Len(fs) |->
           SortSet({At(xF, fs[r])[j] : j \in 1 .. 3} \ {xv})]

RECURSIVE ChainOrder(_, _, _)
\* the loop that orders the faces around a vertex into a cycle: En is
\* E_neighbours with the used rows overwritten by [-1, -1], order the rows
\* taken so far (0-based), last = E_neighbours_in_cycle[i-1, 1]
ChainOrder(xEn, xorder, xlast) ==
    IF Len(xorder) >= Len(xEn) THEN [ok |-> TRUE, order |-> xorder]
    ELSE LET cand == {r \in 1 .. Len(xEn) :
                         xEn[r][1] = xlast \/ xEn[r][2] = xlast}
         IN IF cand = {} THEN [ok |-> FALSE, order |-> xorder]
            ELSE LET next_edge == CHOOSE r \in cand : \A q \in cand : r <= q
                     newlast == IF xEn[next_edge][1] = xlast
                                THEN xEn[next_edge][2] ELSE xEn[next_edge][1]
                 IN ChainOrder([xEn EXCEPT ![next_edge] = <<-1, -1>>],
                               Append(xorder, next_edge - 1), newlast)

\* indices_sorted for the vertex v, or the error raised while ordering
SortedCorners(xF, xV_map, xv) ==
    LET En == NeighbourEdges(xF, xv)
        ind == At(xV_map, xv)
    IN IF Len(En) = 0 THEN [ok |-> FALSE, err |-> "IndexError", val |-> <<>>]
       ELSE LET ch == ChainOrder([En EXCEPT ![1] = <<-1, -1>>], <<0>>, En[1][2])
            IN IF ~ch.ok THEN [ok |-> FALSE, err |-> "IndexError", val |-> <<>>]
               ELSE IF Len(ind) < 2
               THEN [ok |-> FALSE, err |-> "WrongNumberOfExtendedVertices",
                     val |-> <<>>]
               ELSE [ok |-> TRUE, err |-> "",
                     val |-> [i \in 1 .. Len(ch.order) |-> At(ind, ch.order[i])]]

\* the number of combinatorial edges the vertex v contributes
CombCount(xV_map, xv) ==
    IF Len(At(xV_map, xv)) > 2 THEN Len(At(xV_map, xv)) ELSE 1

RECURSIVE CombOffset(_, _)
\* len(E_comb) when the loop reaches the vertex v
CombOffset(xV_map, xv) ==
    IF xv = 0 THEN 0
    ELSE CombOffset(xV_map, xv - 1) + CombCount(xV_map, xv - 1)

\* the combinatorial edges of one vertex: the cycle through its corners, or
\* the single edge of a vertex with two corners
CombEdgesOf(xsorted) ==
    IF Len(xsorted) > 2
    THEN [k \in 1 .. Len(xsorted) |-> <<xsorted[k], xsorted[(k % Len(xsorted)) + 1]>>]
    ELSE <<xsorted>>

RECURSIVE Flatten(_)
Flatten(xss) == IF xss = <<>> THEN <<>> ELSE Head(xss) \o Flatten(Tail(xss))

\* construct_extended_mesh: the fields it assigns, or the error it raises
\* (in which case it assigns nothing)
construct_extended_mesh(xV, xF, xE, xG_V) ==
    LET Ff == FaceFaces(xF)
        Et == TwinEdges(xF)
        Vm == VertexMap(xV, xF)
        efs == [i \in 1 .. Len(xE) |-> EdgeFaceOf(Et, Vm, xE[i])]
        efbad == {i \in 1 .. Len(xE) : efs[i].kind \notin {"face", "boundary"}}
        Fe == [i \in 1 .. Len(SortSet({i \in 1 .. Len(xE) : efs[i].kind = "face"})) |->
                  efs[SortSet({j \in 1 .. Len(xE) : efs[j].kind = "face"})[i]].f_e]
        sc == [v \in 1 .. Len(xV) |-> SortedCorners(xF, Vm, v - 1)]
        scbad == {v \in 1 .. Len(xV) : ~sc[v].ok}
        withface == SortSet({v \in 1 .. Len(xV) : Len(Vm[v]) > 2})
        Ec == Flatten([v \in 1 .. Len(xV) |-> CombEdgesOf(sc[v].val)])
    IN IF efbad # {}
       THEN [ok |-> FALSE, err |-> efs[CHOOSE i \in efbad : \A j \in efbad : i <= j].kind]
       ELSE IF scbad # {}
       THEN [ok |-> FALSE, err |-> sc[CHOOSE v \in scbad : \A w \in scbad : v <= w].err]
       ELSE [ok |-> TRUE, err |-> "",
             V_extended |-> ExtendedVertices(xV, xF),
             E_twin |-> Et,
             E_comb |-> Ec,
             E_extended |-> Et \o Ec,
             F_f |-> Ff,
             F_e |-> Fe,
             F_v |-> [i \in 1 .. Len(withface) |-> sc[withface[i]].val],
             V_map |-> Vm,
             F_v_map_E_comb |->
                 [i \in 1 .. Len(withface) |->
                     [k \in 1 .. Len(Vm[withface[i]]) |->
                         (k - 1) + CombOffset(Vm, withface[i] - 1)]],
             G_F |-> [i \in 1 .. (Len(Ff) + Len(Fe)) |-> Ang(0)] \o xG_V]

(***************************************************************************)
(* IncidenceOperator: construct_d1_extended                                *)
(***************************************************************************)
\* the position of the value x in the sequence s (0-based), -1 when absent
PosIn(xs, xval) ==
    IF xval \in Range(xs) THEN (CHOOSE k \in 1 .. Len(xs) : xs[k] = xval) - 1
    ELSE -1

\* the edges of E_extended with both end points among the corners of f
EdgesWithin(xE_extended, xf) ==
    SortSet({k \in Idx(xE_extended) :
                /\ At(xE_extended, k)[1] \in Range(xf)
                /\ At(xE_extended, k)[2] \in Range(xf)})

\* the entry of d1 for the edge e in the row of the edge-face f: -1 when
\* the edge runs along the face, 1 when against it, 2 for the error raised
EdgeFaceSign(xf, xe) ==
    IF PosIn(xf, xe[1]) = PosIn(xf, xe[2]) - 1
         \/ (xf[Len(xf)] = xe[1] /\ xf[1] = xe[2])
    THEN -1
    ELSE IF PosIn(xf, xe[1]) = PosIn(xf, xe[2]) + 1
              \/ (xf[Len(xf)] = xe[2] /\ xf[1] = xe[1])
    THEN 1
    ELSE 2

\* the row of d1 for the face-face i: 1 on its three twin edges
D1RowFaceFace(xE_extended, xF_f, xi) ==
    [c \in 1 .. Len(xE_extended) |->
        IF \E j \in 1 .. 3 :
              xE_extended[c] = <<At(xF_f, xi)[j], At(xF_f, xi)[(j % 3) + 1]>>
        THEN 1 ELSE 0]

\* the row of d1 for the edge-face i
D1RowEdgeFace(xE_extended, xF_e, xi) ==
    [c \in 1 .. Len(xE_extended) |->
        IF c - 1 \in Range(EdgesWithin(xE_extended, At(xF_e, xi)))
        THEN EdgeFaceSign(At(xF_e, xi), xE_extended[c]) ELSE 0]

\* the row of d1 for the vertex-face i: 1 on its combinatorial edges
D1RowVertexFace(xE_extended, xE_twin, xF_v_map_E_comb, xi) ==
    [c \in 1 .. Len(xE_extended) |->
        IF (c - 1) - Len(xE_twin) \in Range(At(xF_v_map_E_comb, xi))
        THEN 1 ELSE 0]

\* construct_d1_extended: the matrix d1 as the sequence of its rows, or the
\* error raised for an edge-face
construct_d1_extended(xE_extended, xE_twin, xF_f, xF_e, xF_v, xF_v_map_E_comb) ==
    LET rows == [i \in 1 .. Len(xF_f) |-> D1RowFaceFace(xE_extended, xF_f, i - 1)]
                \o [i \in 1 .. Len(xF_e) |-> D1RowEdgeFace(xE_extended, xF_e, i - 1)]
                \o [i \in 1 .. Len(xF_v) |->
                       D1RowVertexFace(xE_extended, xE_twin, xF_v_map_E_comb, i - 1)]
    IN IF \E r \in 1 .. Len(rows) : 2 \in Range(rows[r])
       THEN [ok |-> FALSE, err |-> "EdgeNotInFace", d1 |-> <<>>]
       ELSE [ok |-> TRUE, err |-> "", d1 |-> rows]

(***************************************************************************)
(* PairRotationComputer: compute_face_pair_rotation.  The rotation found   *)
(* for the i-th edge-face is the term <<1, "rotation", i>>.                *)
(***************************************************************************)
\* the combinatorial edges with both end points in the pair p
CombWithin(xE_comb, xp) ==
    {k \in Idx(xE_comb) : At(xE_comb, k)[1] \in Range(xp) /\ At(xE_comb, k)[2] \in Range(xp)}

\* the rotation stored as computed whatever the direction of the edge
PairSignAsComputed(xE_comb, xp, xk) == IF xk \notin CombWithin(xE_comb, xp) THEN 0 ELSE 1

\* what the edge-face i assigns to the combinatorial edge k through the
\* corner pair p: 1 for rotation, -1 for -rotation, 0 nothing, 2 the error
PairSign(xE_comb, xp, xk) ==
    IF xk \notin CombWithin(xE_comb, xp) THEN 0
    ELSE IF \A q \in CombWithin(xE_comb, xp) : At(xE_comb, q) = xp THEN 1
    ELSE IF \A q \in CombWithin(xE_comb, xp) : At(xE_comb, q) = Reverse2(xp) THEN -1
    ELSE 2

\* the corner pairs f_e[[0, 3]] and f_e[[1, 2]] of an edge-face
CornerPairs(xf_e) == << <<xf_e[1], xf_e[4]>>, <<xf_e[2], xf_e[3]>> >>

\* does the edge-face f_e raise "do not match"
PairMismatch(xE_comb, xf_e) ==
    \E j \in 1 .. 2 :
        /\ CombWithin(xE_comb, CornerPairs(xf_e)[j]) # {}
        /\ ~(\A q \in CombWithin(xE_comb, CornerPairs(xf_e)[j]) :
                 At(xE_comb, q) = CornerPairs(xf_e)[j])
        /\ ~(\A q \in CombWithin(xE_comb, CornerPairs(xf_e)[j]) :
                 At(xE_comb, q) = Reverse2(CornerPairs(xf_e)[j]))

\* compute_face_pair_rotation: pair_rotations, each entry written by the
\* last edge-face that reaches it
compute_face_pair_rotation(xE_comb, xF_e) ==
    IF \E i \in 1 .. Len(xF_e) : PairMismatch(xE_comb, xF_e[i])
    THEN [ok |-> FALSE, err |-> "DoNotMatch", pair_rotations |-> <<>>]
    ELSE [ok |-> TRUE, err |-> "",
          pair_rotations |->
            [k \in 1 .. Len(xE_comb) |->
                LET writers == {<<i, j>> \in (1 .. Len(xF_e)) \X (1 .. 2) :
                                   PairSign(xE_comb, CornerPairs(xF_e[i])[j], k - 1) # 0}
                IN IF writers = {} THEN Ang(0)
                   ELSE LET w == CHOOSE y \in writers : \A z \in writers :
                                     z[1] < y[1] \/ (z[1] = y[1] /\ z[2] <= y[2])
                        IN Term(PairSign(xE_comb, CornerPairs(xF_e[w[1]])[w[2]], k - 1),
                                "rotation", w[1] - 1)]]

(***************************************************************************)
(* HomologyExtended: compute_homology_extended                             *)
(***************************************************************************)
\* the first twin edge between the corners of the end points of e
FirstTwin(xE_twin, xV_map, xe) ==
    TwinsBetween(xE_twin, At(xV_map, xe[1]), At(xV_map, xe[2]))[1]

\* reverse: 0 when the twin edge starts at a corner of e[0], 1 when it ends
\* there, 2 for the error raised otherwise
ReverseOf(xE_twin, xV_map, xe) ==
    LET t == At(xE_twin, FirstTwin(xE_twin, xV_map, xe))
    IN IF t[1] \in Range(At(xV_map, xe[1])) THEN 0
       ELSE IF t[2] \in Range(At(xV_map, xe[1])) THEN 1
       ELSE 2

\* the writes with 1 on every combinatorial edge of the arc, whichever way
\* round the vertex-face the arc goes
HWritesUnsigned(xE_twin, xV_map, xF_v, xF_v_map_E_comb, xcycle, xj) ==
    LET e == xcycle[xj]
        e_next == xcycle[(xj % Len(xcycle)) + 1]
        e_twin == FirstTwin(xE_twin, xV_map, e)
        reverse == ReverseOf(xE_twin, xV_map, e)
        e_twin_next == FirstTwin(xE_twin, xV_map, e_next)
        reverse_next == ReverseOf(xE_twin, xV_map, e_next)
        f_v == At(xF_v, e[2])
        start == PosIn(f_v, At(xE_twin, e_twin)[(1 - reverse) + 1])
        end == PosIn(f_v, At(xE_twin, e_twin_next)[reverse_next + 1])
    IN {<<e_twin, IF reverse = 0 THEN 1 ELSE -1>>}
         \cup {<<At(At(xF_v_map_E_comb, e[2]), k) + Len(xE_twin), 1>> :
                  k \in start .. (end - 1)}
         \cup {<<At(At(xF_v_map_E_comb, e[2]), k) + Len(xE_twin), 1>> :
                  k \in end .. (start - 1)}

\* what the j-th edge of a cycle writes into its row of H: the column of
\* its twin edge, and the columns of the combinatorial edges that lead
\* around the vertex e[1] to the corner where the next edge leaves
HWrites(xE_twin, xV_map, xF_v, xF_v_map_E_comb, xcycle, xj) ==
    LET e == xcycle[xj]
        e_next == xcycle[(xj % Len(xcycle)) + 1]
        e_twin == FirstTwin(xE_twin, xV_map, e)
        reverse == ReverseOf(xE_twin, xV_map, e)
        e_twin_next == FirstTwin(xE_twin, xV_map, e_next)
        reverse_next == ReverseOf(xE_twin, xV_map, e_next)
        f_v == At(xF_v, e[2])
        start == PosIn(f_v, At(xE_twin, e_twin)[(1 - reverse) + 1])
        end == PosIn(f_v, At(xE_twin, e_twin_next)[reverse_next + 1])
    IN {<<e_twin, IF reverse = 0 THEN 1 ELSE -1>>}
         \cup {<<At(At(xF_v_map_E_comb, e[2]), k) + Len(xE_twin), 1>> :
                  k \in start .. (end - 1)}
         \cup {<<At(At(xF_v_map_E_comb, e[2]), k) + Len(xE_twin), -1>> :
                  k \in end .. (start - 1)}

\* one row of H: each column holds the value written last
HRow(xE_extended, xE_twin, xV_map, xF_v, xF_v_map_E_comb, xcycle) ==
    [c \in 1 .. Len(xE_extended) |->
        LET writers == {j \in 1 .. Len(xcycle) :
                           \E w \in HWrites(xE_twin, xV_map, xF_v,
                                            xF_v_map_E_comb, xcycle, j) :
                               w[1] = c - 1}
        IN IF writers = {} THEN 0
           ELSE LET last == CHOOSE j \in writers : \A q \in writers : q <= j
                IN (CHOOSE w \in HWrites(xE_twin, xV_map, xF_v,
                                         xF_v_map_E_comb, xcycle, last) :
                        w[1] = c - 1)[2]]

\* compute_homology_extended: H and G_H, or the error raised
compute_homology_extended(xE_extended, xE_twin, xV_map, xF_v, xF_v_map_E_comb, xcycles) ==
    IF \E i \in 1 .. Len(xcycles) : \E j \in 1 .. Len(xcycles[i]) :
           ReverseOf(xE_twin, xV_map, xcycles[i][j]) = 2
    THEN [ok |-> FALSE, err |-> "TwinNotAligned", H |-> <<>>, G_H |-> <<>>]
    ELSE [ok |-> TRUE, err |-> "",
          H |-> [i \in 1 .. Len(xcycles) |->
                    HRow(xE_extended, xE_twin, xV_map, xF_v, xF_v_map_E_comb,
                         xcycles[i])],
          G_H |-> [i \in 1 .. Len(xcycles) |-> 0]]

(***************************************************************************)
(* State                                                                   *)
(***************************************************************************)
VARIABLES
    pc,         \* how far the object has been built
    err,        \* the error the last operation raised, "" when none
    \* the mesh context: the fields set by __init__ ...
    V, F, E, G_V, genus, B1, E_co, E_non_contractible_cycles,
    \* ... and by initialise_field_processing
    V_extended, E_twin, E_comb, E_extended, F_f, F_e, F_v, V_map,
    F_v_map_E_comb, G_F, d1, pair_rotations, H, G_H,
    \* the request state: the fields set by compute_thetas and by
    \* subdivide_faces_over_pi; attrs is the set of those that exist
    attrs, I_F, F_singular, singularities_f, indices_f, V_singular,
    F_over_pi, F_subdivided, V_subdivided, U_subdivided,
    \* the last call of compute_thetas: its arguments, its masks, the system
    \* it handed to lsqr, and the Theta it returned (<<>> when it raised)
    args, mask_removed_f, mask_removed_e, KKT, Theta,
    \* what the caller holds of the later stages, and the number of requests
    U, coeffs, samples, calls,
    \* the choice of the second point of the fit on one singular face, step
    \* by step
    second_point

topology == <<V, F, E, G_V, genus, B1, E_co, E_non_contractible_cycles>>

extended == <<V_extended, E_twin, E_comb, E_extended, F_f, F_e, F_v, V_map,
              F_v_map_E_comb, G_F, d1, pair_rotations, H, G_H>>

context == <<topology, extended>>

thetas_state == <<I_F, F_singular, singularities_f, indices_f, V_singular>>

subdivision == <<F_over_pi, F_subdivided, V_subdivided, U_subdivided>>

last_call == <<args, mask_removed_f, mask_removed_e, KKT, Theta>>

vars == <<pc, err, context, attrs, thetas_state, subdivision, last_call,
          U, coeffs, samples, calls, second_point>>

(***************************************************************************)
(* Geometry.  Points and vectors are integer triples.  The tangent frame   *)
(* of a face (compute_planes, Functions/Auxiliary.py) is given by the      *)
(* angle B1[f].turn by which its first axis is turned away from the first  *)
(* edge of the face, about the normal that the winding of the face         *)
(* defines, and by B1[f].hand: 1 when its second axis is a quarter turn    *)
(* further about that normal, -1 when it is a quarter turn back.           *)
(***************************************************************************)
Sub3(xa, xb) == <<xa[1] - xb[1], xa[2] - xb[2], xa[3] - xb[3]>>

Dot3(xa, xb) == xa[1] * xb[1] + xa[2] * xb[2] + xa[3] * xb[3]

Cross3(xa, xb) ==
    <<xa[2] * xb[3] - xa[3] * xb[2],
      xa[3] * xb[1] - xa[1] * xb[3],
      xa[1] * xb[2] - xa[2] * xb[1]>>

RECURSIVE SumSeq(_)
SumSeq(xs) == IF xs = <<>> THEN 0 ELSE Head(xs) + SumSeq(Tail(xs))

\* np.arccos of the cosine of the angle between v and w, in degrees
UnsignedAngle(xv, xw) ==
    LET d == Dot3(xv, xw)
        p == Dot3(xv, xv) * Dot3(xw, xw)
    IN CASE d = 0 /\ p > 0 -> 90
         [] d # 0 /\ d * d = p -> IF d > 0 THEN 0 ELSE 180
         [] d # 0 /\ 4 * d * d = p -> IF d > 0 THEN 60 ELSE 120
         [] d # 0 /\ 4 * d * d = 3 * p -> IF d > 0 THEN 30 ELSE 150
         [] d # 0 /\ 2 * d * d = p -> IF d > 0 THEN 45 ELSE 135

\* the angle from the first edge of the face f to the vector w lying in
\* the plane of f, in (-180, 180]
AngleFromFirstEdge(xf, xw) ==
    LET A == At(V, At(F, xf)[1])
        e1 == Sub3(At(V, At(F, xf)[2]), A)
        e2 == Sub3(At(V, At(F, xf)[3]), A)
        side == Dot3(Cross3(e1, xw), Cross3(e1, e2))
    IN IF side >= 0 THEN UnsignedAngle(e1, xw) ELSE -UnsignedAngle(e1, xw)

\* np.mod(r + np.pi, 2*np.pi) - np.pi
WrapRotation(xr) == ((xr + 180) % 360) - 180

\* np.angle(complex_projection(b1, b2, normal, w)) in the frame of the face
\* f, in (-180, 180]; np.angle(0) is 0
np_angle(xf, xw) ==
    IF xw = <<0, 0, 0>> THEN 0
    ELSE -WrapRotation(-(At(B1, xf).hand
                           * (AngleFromFirstEdge(xf, xw) - At(B1, xf).turn)))

\* is_in_face (Functions/Auxiliary.py): the first face whose triangle
\* holds the point, -1 for False
InTriangle(xA, xB, xC, xp) ==
    LET n == Cross3(Sub3(xB, xA), Sub3(xC, xA))
    IN /\ Dot3(Sub3(xp, xA), n) = 0
       /\ Dot3(Cross3(Sub3(xB, xA), Sub3(xp, xA)), n) >= 0
       /\ Dot3(Cross3(Sub3(xC, xB), Sub3(xp, xB)), n) >= 0
       /\ Dot3(Cross3(Sub3(xA, xC), Sub3(xp, xC)), n) >= 0

is_in_face(xV_extended, xF_f, xp) ==
    LET inside == {f \in Idx(xF_f) :
                      InTriangle(At(xV_extended, At(xF_f, f)[1]),
                                 At(xV_extended, At(xF_f, f)[2]),
                                 At(xV_extended, At(xF_f, f)[3]), xp)}
    IN IF inside = {} THEN -1 ELSE CHOOSE f \in inside : \A g \in inside : f <= g

(***************************************************************************)
(* ConnectionSolver: compute_thetas                                        *)
(***************************************************************************)
NumFaces == Len(F_f) + Len(F_e) + Len(F_v)

\* the empty dict of lists, {}
EmptyDict == [g \in {} |-> <<>>]

\* the local state of one call after the reset at its start: Theta and the
\* two masks, the request fields of the object, and the error raised
ResetState ==
    [Theta |-> [c \in 1 .. Len(E_extended) |-> 0],
     mask_removed_f |-> [r \in 1 .. NumFaces |-> TRUE],
     mask_removed_e |-> [c \in 1 .. Len(E_extended) |-> TRUE],
     F_singular |-> <<>>,
     singularities_f |-> EmptyDict,
     indices_f |-> EmptyDict,
     V_singular |-> <<>>,
     err |-> ""]

\* a dict of lists that puts each new value in front of the list
DictPrepend(xd, xkey, xvalue) ==
    [g \in DOMAIN xd \cup {xkey} |->
        IF g = xkey
        THEN (IF xkey \in DOMAIN xd THEN <<xvalue>> \o xd[xkey] ELSE <<xvalue>>)
        ELSE xd[g]]

\* d[f] = [value] or d[f].append(value) on a dict of lists
DictAppend(xd, xkey, xvalue) ==
    [g \in DOMAIN xd \cup {xkey} |->
        IF g = xkey
        THEN (IF xkey \in DOMAIN xd THEN Append(xd[xkey], xvalue) ELSE <<xvalue>>)
        ELSE xd[g]]

\* np.argmax(np.abs(rotations)): the first position of the largest magnitude
ArgMaxAbs(xrot) ==
    CHOOSE k \in 1 .. Len(xrot) :
        /\ \A q \in 1 .. Len(xrot) : Abs(xrot[q]) <= Abs(xrot[k])
        /\ \A q \in 1 .. (k - 1) : Abs(xrot[q]) < Abs(xrot[k])

\* the wrapped rotations of the edges of f around a point on a vertex or an
\* edge, before the sum is looked at
WrappedRotations(xf, xV1, xV2) ==
    [k \in 1 .. Len(xV1) |->
        WrapRotation(np_angle(xf, xV2[k]) - np_angle(xf, xV1[k]))]

\* deal_singularity without the change of sign
NoFlip(xrot) == xrot

\* if |sum| is 2 pi the component of largest magnitude changes sign
FlipLargest(xrot) ==
    IF Abs(SumSeq(xrot)) = 360
    THEN [xrot EXCEPT ![ArgMaxAbs(xrot)] = -xrot[ArgMaxAbs(xrot)]]
    ELSE xrot

\* rotations[v_singular] = 0; rotations[v_singular - 1] = 0
ZeroAtVertex(xrot, xV1) ==
    [k \in 1 .. Len(xrot) |->
        IF xV1[k] = <<0, 0, 0>> \/ xV1[(k % Len(xrot)) + 1] = <<0, 0, 0>>
        THEN 0 ELSE xrot[k]]

\* deal_singularity(f, singularity, index, in_face) on the local state st
deal_singularity(xst, xf, xsingularity, xindex, xin_face) ==
    LET st1 == [xst EXCEPT
                   !.F_singular = IF xf \in Range(xst.F_singular)
                                  THEN xst.F_singular
                                  ELSE Append(xst.F_singular, xf),
                   !.singularities_f =
                       DictAppend(xst.singularities_f, xf, xsingularity),
                   !.indices_f = DictAppend(xst.indices_f, xf, xindex)]
        e_f == EdgesWithin(E_extended, At(F_f, xf))
        V1 == [k \in 1 .. Len(e_f) |->
                  Sub3(xsingularity, At(V_extended, At(E_extended, e_f[k])[1]))]
        V2 == [k \in 1 .. Len(e_f) |->
                  Sub3(xsingularity, At(V_extended, At(E_extended, e_f[k])[2]))]
        flipped == FlipLargest(WrappedRotations(xf, V1, V2))
        rotations ==
            IF xin_face
            THEN [k \in 1 .. Len(e_f) |-> xindex * UnsignedAngle(V1[k], V2[k])]
            ELSE [k \in 1 .. Len(e_f) |-> xindex * flipped[k]]
        zeroed == ZeroAtVertex(rotations, V1)
    IN IF ~xin_face /\ SumSeq(flipped) # 0
       THEN [st1 EXCEPT !.err = "RotationNotZero"]
       ELSE [st1 EXCEPT
               !.Theta = [c \in 1 .. Len(E_extended) |->
                            IF c - 1 \in Range(e_f)
                            THEN xst.Theta[c] + zeroed[PosIn(e_f, c - 1) + 1]
                            ELSE xst.Theta[c]],
               !.mask_removed_f = [xst.mask_removed_f EXCEPT ![xf + 1] = FALSE],
               !.mask_removed_e = [c \in 1 .. Len(E_extended) |->
                                     xst.mask_removed_e[c] /\ c - 1 \notin Range(e_f)]]

RECURSIVE DealFaces(_, _, _, _)
\* deal_singularity for the faces fs in turn, until one raises
DealFaces(xst, xfs, xsingularity, xindex) ==
    IF xfs = <<>> \/ xst.err # "" THEN xst
    ELSE DealFaces(deal_singularity(xst, Head(xfs), xsingularity, xindex, FALSE),
                   Tail(xfs), xsingularity, xindex)

\* in_F_v: the vertices at the point
in_F_v(xp) == SortSet({v \in Idx(V) : At(V, v) = xp})

\* in_F_e: the edge-faces whose edge holds the point strictly inside
in_F_e(xp) ==
    SortSet({i \in Idx(F_e) :
        LET vec1 == Sub3(At(V_extended, At(F_e, i)[1]), xp)
            vec2 == Sub3(At(V_extended, At(F_e, i)[2]), xp)
        IN /\ Dot3(vec1, vec2) < 0
           /\ Dot3(vec1, vec2) * Dot3(vec1, vec2)
                 = Dot3(vec1, vec1) * Dot3(vec2, vec2)})

\* the edge-faces with two corners on the combinatorial edge k
EdgeFacesOn(xk) ==
    SortSet({i \in Idx(F_e) : Cardinality({j \in 1 .. 4 :
                At(F_e, i)[j] \in Range(At(E_comb, xk))}) = 2})

\* the extended edges that the vertex branch removes besides those of the
\* faces: the combinatorial edges of the edge-faces around the vertex
VertexRemovedEdges(xv) ==
    UNION {UNION {{k + Len(E_twin) :
                      k \in CombWithin(E_comb,
                               CornerPairs(At(F_e, EdgeFacesOn(c)[1]))[j])} :
                  j \in 1 .. 2} :
           c \in Range(At(F_v_map_E_comb, xv))}

\* the rows of the edge-faces around the vertex, its vertex-face left out
EdgeFaceRowsAround(xv) ==
    UNION {{Len(F_f) + i : i \in Range(EdgeFacesOn(c))} :
           c \in Range(At(F_v_map_E_comb, xv))}

\* the rows that the vertex branch removes: the edge-faces around the
\* vertex and its vertex-face
VertexRemovedFaces(xv) ==
    {Len(F_f) + Len(F_e) + xv}
      \cup UNION {{Len(F_f) + i : i \in Range(EdgeFacesOn(c))} :
                  c \in Range(At(F_v_map_E_comb, xv))}

\* the removal of rows and columns on the masks
Remove(xst, xfaces, xedges) ==
    [xst EXCEPT
       !.mask_removed_f = [r \in 1 .. NumFaces |->
                             xst.mask_removed_f[r] /\ r - 1 \notin xfaces],
       !.mask_removed_e = [c \in 1 .. Len(E_extended) |->
                             xst.mask_removed_e[c] /\ c - 1 \notin xedges]]

\* self.V_singular += self.V_map[v], unless its first corner is there
MarkVertex(xst, xv) ==
    [xst EXCEPT !.V_singular = IF At(V_map, xv)[1] \in Range(xst.V_singular)
                               THEN xst.V_singular
                               ELSE xst.V_singular \o At(V_map, xv)]

\* the removals of the vertex branch, on the state st that the faces of the
\* vertex left
VertexRemovals(xst, xv) ==
    IF xst.err # "" THEN xst
    ELSE IF \E c \in Range(At(F_v_map_E_comb, xv)) : EdgeFacesOn(c) = <<>>
    THEN [xst EXCEPT !.err = "IndexError"]
    ELSE Remove(xst, VertexRemovedFaces(xv), VertexRemovedEdges(xv))

\* the branch for a singularity on the vertex v
OnVertex(xst, xv, xsingularity, xindex) ==
    VertexRemovals(DealFaces(MarkVertex(xst, xv), FacesOfVertex(F, xv),
                             xsingularity, xindex),
                   xv)

\* the face-face with two corners on the twin edge e
FaceOfTwin(xe) ==
    CHOOSE f \in Idx(F_f) :
        /\ Cardinality({j \in 1 .. 3 : At(F_f, f)[j] \in Range(xe)}) = 2
        /\ \A g \in Idx(F_f) :
              Cardinality({j \in 1 .. 3 : At(F_f, g)[j] \in Range(xe)}) = 2
                  => f <= g

\* the removals of the edge branch, on the state st that the two faces of
\* the edge left
EdgeRemovals(xst, xi) ==
    IF xst.err # "" THEN xst
    ELSE Remove(xst, {Len(F_f) + xi},
                {k + Len(E_twin) :
                    k \in CombWithin(E_comb, CornerPairs(At(F_e, xi))[1])
                            \cup CombWithin(E_comb, CornerPairs(At(F_e, xi))[2])})

\* the branch for a singularity on the edge of the edge-face i
OnEdge(xst, xi, xsingularity, xindex) ==
    EdgeRemovals(DealFaces(xst, <<FaceOfTwin(<<At(F_e, xi)[1], At(F_e, xi)[2]>>),
                                  FaceOfTwin(<<At(F_e, xi)[3], At(F_e, xi)[4]>>)>>,
                           xsingularity, xindex),
                 xi)

\* the loop without the raise that ends it
PlaceWithoutRaise(xst, xsingularity, xindex) ==
    IF xindex = 0 THEN xst
    ELSE IF Len(in_F_v(xsingularity)) = 1
    THEN OnVertex(xst, in_F_v(xsingularity)[1], xsingularity, xindex)
    ELSE IF Len(in_F_e(xsingularity)) = 1
    THEN OnEdge(xst, in_F_e(xsingularity)[1], xsingularity, xindex)
    ELSE IF is_in_face(V_extended, F_f, xsingularity) # -1
    THEN deal_singularity(xst, is_in_face(V_extended, F_f, xsingularity),
                          xsingularity, xindex, TRUE)
    ELSE xst

\* the loop without the skip of the index 0
PlaceWithoutSkip(xst, xsingularity, xindex) ==
    IF Len(in_F_v(xsingularity)) = 1
    THEN OnVertex(xst, in_F_v(xsingularity)[1], xsingularity, xindex)
    ELSE IF Len(in_F_e(xsingularity)) = 1
    THEN OnEdge(xst, in_F_e(xsingularity)[1], xsingularity, xindex)
    ELSE IF is_in_face(V_extended, F_f, xsingularity) # -1
    THEN deal_singularity(xst, is_in_face(V_extended, F_f, xsingularity),
                          xsingularity, xindex, TRUE)
    ELSE [xst EXCEPT !.err = "NotInAnyFaceEdgeOrVertex"]

\* the loop with the test of the faces put first
PlaceFaceFirst(xst, xsingularity, xindex) ==
    IF xindex = 0 THEN xst
    ELSE IF is_in_face(V_extended, F_f, xsingularity) # -1
    THEN deal_singularity(xst, is_in_face(V_extended, F_f, xsingularity),
                          xsingularity, xindex, TRUE)
    ELSE IF Len(in_F_v(xsingularity)) = 1
    THEN OnVertex(xst, in_F_v(xsingularity)[1], xsingularity, xindex)
    ELSE IF Len(in_F_e(xsingularity)) = 1
    THEN OnEdge(xst, in_F_e(xsingularity)[1], xsingularity, xindex)
    ELSE [xst EXCEPT !.err = "NotInAnyFaceEdgeOrVertex"]

\* one turn of the loop over zip(singularities, indices)
PlaceSingularity(xst, xsingularity, xindex) ==
    IF xindex = 0 THEN xst
    ELSE IF Len(in_F_v(xsingularity)) = 1
    THEN OnVertex(xst, in_F_v(xsingularity)[1], xsingularity, xindex)
    ELSE IF Len(in_F_e(xsingularity)) = 1
    THEN OnEdge(xst, in_F_e(xsingularity)[1], xsingularity, xindex)
    ELSE IF is_in_face(V_extended, F_f, xsingularity) # -1
    THEN deal_singularity(xst, is_in_face(V_extended, F_f, xsingularity),
                          xsingularity, xindex, TRUE)
    ELSE [xst EXCEPT !.err = "NotInAnyFaceEdgeOrVertex"]

RECURSIVE PlaceAll(_, _, _, _)
\* the loop over zip(singularities, indices) from its k-th turn, until a
\* turn raises
PlaceAll(xst, xsingularities, xindices, xk) ==
    IF xk > Len(xsingularities) \/ xst.err # "" THEN xst
    ELSE PlaceAll(PlaceSingularity(xst, xsingularities[xk], xindices[xk]),
                  xsingularities, xindices, xk + 1)

\* a call that appends to the request fields the object holds
KeepState(xF_singular, xsingularities_f, xindices_f, xV_singular) ==
    [ResetState EXCEPT !.F_singular = xF_singular,
                       !.singularities_f = xsingularities_f,
                       !.indices_f = xindices_f,
                       !.V_singular = xV_singular]

\* the local state a call starts from, given the request fields the object
\* holds when it is called: every one of them is assigned afresh
StartState(xF_singular, xsingularities_f, xindices_f, xV_singular) == ResetState

\* row . Theta for a row of d1 and the fixed values in Theta
RowDot(xrow, xTheta) ==
    SumSeq([k \in 1 .. Len(SortSet({c \in 1 .. Len(xrow) : xrow[c] # 0 /\ xTheta[c] # 0})) |->
               xrow[SortSet({c \in 1 .. Len(xrow) : xrow[c] # 0 /\ xTheta[c] # 0})[k]]
                 * xTheta[SortSet({c \in 1 .. Len(xrow) : xrow[c] # 0 /\ xTheta[c] # 0})[k]]])

\* the system with the right-hand side -G_F, the fixed values left out
AssembleWithoutFixed(xst, xweight_comb) ==
    [Q |-> Compress([c \in 1 .. Len(E_extended) |->
                        IF c > Len(E_twin) THEN xweight_comb ELSE 1],
                    xst.mask_removed_e),
     E |-> Compress([r \in 1 .. NumFaces |->
                        Compress(d1[r], xst.mask_removed_e)],
                    xst.mask_removed_f),
     d |-> Compress([r \in 1 .. NumFaces |-> NegAng(G_F[r])],
                    xst.mask_removed_f)]

\* the system handed to lsqr: Q is the diagonal of the weight matrix on the
\* free edges, E the constraint block, d its right-hand side; c is zero
AssembleKKT(xst, xweight_comb) ==
    [Q |-> Compress([c \in 1 .. Len(E_extended) |->
                        IF c > Len(E_twin) THEN xweight_comb ELSE 1],
                    xst.mask_removed_e),
     E |-> Compress([r \in 1 .. NumFaces |->
                        Compress(d1[r], xst.mask_removed_e)],
                    xst.mask_removed_f),
     d |-> Compress([r \in 1 .. NumFaces |->
                        AddAng(NegAng(G_F[r]), Ang(-RowDot(d1[r], xst.Theta)))],
                    xst.mask_removed_f)]

\* the values the model lets lsqr return, in degrees
SolverValues == <<0, 40, -100, 180, 200, -20>>

\* scipy's lsqr on the KKT system: a function of the system alone; the
\* model takes its values from SolverValues
lsqr(xKKT) ==
    LET load == Len(xKKT.E) + SumSeq(xKKT.Q)
                  + SumSeq([r \in 1 .. Len(xKKT.d) |-> Abs(xKKT.d[r].deg)])
    IN [k \in 1 .. Len(xKKT.Q) |->
           SolverValues[((k + load) % Len(SolverValues)) + 1]]

\* the solution written on the free edges of an array of zeros
SolvedThetaOnZeros(xst, xsolution) ==
    [c \in 1 .. Len(xst.Theta) |->
        IF xst.mask_removed_e[c]
        THEN Ang(xsolution[Cardinality({q \in 1 .. c : xst.mask_removed_e[q]})])
        ELSE Ang(0)]

\* Theta[mask_removed_e] = solution[:np.sum(mask_removed_e)]
SolvedTheta(xst, xsolution) ==
    [c \in 1 .. Len(xst.Theta) |->
        IF xst.mask_removed_e[c]
        THEN Ang(xsolution[Cardinality({q \in 1 .. c : xst.mask_removed_e[q]})])
        ELSE Ang(xst.Theta[c])]

NoKKT == [Q |-> <<>>, E |-> <<>>, d |-> <<>>]

\* the end of the call, the loop having left the local state st: the error
\* the loop raised, or the system sys and the Theta solved from it
SolveFrom(xst, xsys) ==
    IF xst.err # ""
    THEN [err |-> xst.err, reset |-> TRUE,
          F_singular |-> xst.F_singular,
          singularities_f |-> xst.singularities_f,
          indices_f |-> xst.indices_f, V_singular |-> xst.V_singular,
          mask_removed_f |-> <<>>, mask_removed_e |-> <<>>,
          KKT |-> NoKKT, Theta |-> <<>>]
    ELSE [err |-> "", reset |-> TRUE,
          F_singular |-> xst.F_singular,
          singularities_f |-> xst.singularities_f,
          indices_f |-> xst.indices_f, V_singular |-> xst.V_singular,
          mask_removed_f |-> xst.mask_removed_f,
          mask_removed_e |-> xst.mask_removed_e,
          KKT |-> xsys, Theta |-> SolvedTheta(xst, lsqr(xsys))]

AfterLoop(xst, xweight_comb) == SolveFrom(xst, AssembleKKT(xst, xweight_comb))

\* compute_thetas with the fields of the request assigned before the lengths
\* are compared
ResetBeforeLengthCheck(xreq, xstart) ==
    IF Len(xreq.singularities) # Len(xreq.indices)
    THEN [err |-> "LengthMismatch", reset |-> TRUE,
          F_singular |-> <<>>, singularities_f |-> EmptyDict,
          indices_f |-> EmptyDict, V_singular |-> <<>>,
          mask_removed_f |-> <<>>, mask_removed_e |-> <<>>,
          KKT |-> NoKKT, Theta |-> <<>>]
    ELSE AfterLoop(PlaceAll(xstart, xreq.singularities, xreq.indices, 1),
                   xreq.weight_comb)

\* compute_thetas(singularities, indices, weight_comb,
\* non_contractible_indices) from the local state start: what it raises,
\* what it leaves in the object, and what it returns
compute_thetas(xreq, xstart) ==
    IF Len(xreq.singularities) # Len(xreq.indices)
    THEN [err |-> "LengthMismatch", reset |-> FALSE,
          F_singular |-> <<>>, singularities_f |-> EmptyDict,
          indices_f |-> EmptyDict, V_singular |-> <<>>,
          mask_removed_f |-> <<>>, mask_removed_e |-> <<>>,
          KKT |-> NoKKT, Theta |-> <<>>]
    ELSE LET non_contractible_indices ==
                 IF xreq.non_contractible_indices.given
                 THEN xreq.non_contractible_indices.val
                 ELSE [i \in 1 .. Len(E_non_contractible_cycles) |-> 0]
         IN AfterLoop(PlaceAll(xstart, xreq.singularities, xreq.indices, 1),
                      xreq.weight_comb)

(***************************************************************************)
(* CornerReconstructor: reconstruct_corners_from_thetas.  The corner       *)
(* values lsqr returns are a function of the system, which is fixed by     *)
(* Theta_complete, v_init and z_init: U is kept as that triple, and a      *)
(* corner value as the corner's number in it.                              *)
(***************************************************************************)
\* Theta_complete = Theta: the caller's array under another name
np_alias(xTheta) == [data |-> xTheta, shared |-> TRUE]

\* Theta.copy(): a new array with the same data, not shared with the caller
np_copy(xTheta) == [data |-> xTheta, shared |-> FALSE]

\* what the call returns, and the caller's Theta array after it
reconstruct_corners_from_thetas(xTheta, xv_init, xz_init) ==
    LET copy == np_copy(xTheta)
        Theta_complete ==
            [c \in 1 .. Len(copy.data) |->
                IF c > Len(E_twin)
                THEN AddAng(copy.data[c], pair_rotations[c - Len(E_twin)])
                ELSE copy.data[c]]
    IN [U |-> [Theta_complete |-> Theta_complete,
               v_init |-> xv_init, z_init |-> xz_init],
        Theta |-> IF copy.shared THEN Theta_complete ELSE xTheta]

(***************************************************************************)
(* Subdivider: subdivide_faces_over_pi                                     *)
(***************************************************************************)
\* np.abs(Theta[e]) // (np.pi/2) + 1
NumSubdivisions(xtheta) == (Abs(xtheta.deg) \div 90) + 1

\* the twin edges with |Theta| > pi/2, in increasing order
EdgesOverPi(xTheta) ==
    SelectSeq([i \in 1 .. Len(E_twin) |-> i - 1],
              LAMBDA e : Abs(At(xTheta, e).deg) > 90)

\* the face found for each of the edges over
FacesOfEdges(xover) ==
    SelectSeq([k \in 1 .. Len(xover) |-> FaceOfTwin(At(E_twin, xover[k]))],
              LAMBDA f : TRUE)

\* F_over_pi without the test "f not in self.F_singular"
FacesOverPiUnfiltered(xfaces, xF_singular) == FirstOccurrences(xfaces)

\* the faces appended to F_over_pi, in the order of their first such edge
FacesOverPi(xfaces, xF_singular) ==
    FirstOccurrences(SelectSeq(xfaces, LAMBDA f : f \notin Range(xF_singular)))

\* num_subdivisions_f[f] at the end of the first loop
SubdivisionLevel(xTheta, xover, xfaces, xf) ==
    LET nums == {NumSubdivisions(At(xTheta, xover[k])) :
                    k \in {q \in 1 .. Len(xover) : xfaces[q] = xf}}
    IN CHOOSE n \in nums : \A q \in nums : q <= n

\* the pairs (i, j) of "for i in range(N + 1): for j in range(N + 1 - i)"
LatticePoints(xN) ==
    SortPairs({p \in (0 .. xN) \X (0 .. xN) : p[1] + p[2] <= xN})

\* the bottom triangle appended for every pair (i, j)
TrianglesAtEveryPair(xN, xi, xj) ==
    LET idx1 == (xi * (xN + 1) - ((xi * (xi - 1)) \div 2)) + xj
        idx2 == idx1 + 1
        idx3 == idx1 + (xN + 1 - xi)
    IN <<<<idx1, idx2, idx3>>, <<idx2, idx3, idx3 + 1>>>>

\* the triangles appended for the pair (i, j) of the third step
TrianglesAt(xN, xi, xj) ==
    LET idx1 == (xi * (xN + 1) - ((xi * (xi - 1)) \div 2)) + xj
        idx2 == idx1 + 1
        idx3 == idx1 + (xN + 1 - xi)
    IN IF xj < xN - xi - 1
       THEN <<<<idx1, idx2, idx3>>, <<idx2, idx3, idx3 + 1>>>>
       ELSE <<<<idx1, idx2, idx3>>>>

\* F_subdivided[f]
SubTriangles(xN) ==
    LET at == LatticePoints(xN - 1)
    IN Flatten([k \in 1 .. Len(at) |-> TrianglesAt(xN, at[k][1], at[k][2])])

\* V_subdivided[f]: the barycentric weights (u, v, w) of a point, times N
SubVertices(xN) ==
    LET at == LatticePoints(xN)
    IN [k \in 1 .. Len(at) |-> <<at[k][1], at[k][2], xN - at[k][1] - at[k][2]>>]

\* U_subdivided[f]: U_f[2] * exp(-1j * rotations[1] * v) * exp(1j * rotations[2] * u)
SubCorners(xTheta, xU, xf, xN) ==
    LET at == LatticePoints(xN)
        within == EdgesWithin(E_twin, At(F_f, xf))
    IN [k \in 1 .. Len(at) |->
          [base |-> At(F_f, xf)[3],
           minus |-> <<At(xTheta, within[2]).deg, at[k][2], xN>>,
           plus |-> <<At(xTheta, within[3]).deg, at[k][1], xN>>]]

\* the second and third loop for the face f
SubdivideFace(xTheta, xU, xf, xN) ==
    [F_subdivided |-> SubTriangles(xN),
     V_subdivided |-> SubVertices(xN),
     U_subdivided |-> SubCorners(xTheta, xU, xf, xN)]

\* the four fields subdivide_faces_over_pi(Theta, U) assigns
subdivide_faces_over_pi(xTheta, xU, xF_singular) ==
    LET over == EdgesOverPi(xTheta)
        faces == FacesOfEdges(over)
        F_over == FacesOverPi(faces, xF_singular)
        sub == [k \in 1 .. Len(F_over) |->
                   SubdivideFace(xTheta, xU, F_over[k],
                       SubdivisionLevel(xTheta, over, faces, F_over[k]))]
    IN [F_over_pi |-> F_over,
        F_subdivided |-> [f \in Range(F_over) |-> sub[PosIn(F_over, f) + 1].F_subdivided],
        V_subdivided |-> [f \in Range(F_over) |-> sub[PosIn(F_over, f) + 1].V_subdivided],
        U_subdivided |-> [f \in Range(F_over) |-> sub[PosIn(F_over, f) + 1].U_subdivided]]

(***************************************************************************)
(* LinearFieldFitter: reconstruct_linear_from_corners.  A fitted           *)
(* coefficient row is kept as the data of the system it was solved from.   *)
(***************************************************************************)
\* the second point of the fit on the singular face i: the first corner
\* that is none of the face's singular points, else a randomly drawn point
SecondPoint(xi, xsingularities_f) ==
    LET proper == {k \in 1 .. 3 :
                      At(V_extended, At(F_f, xi)[k]) \notin Range(xsingularities_f[xi])}
    IN IF proper = {} THEN [kind |-> "random", corner |-> -1]
       ELSE [kind |-> "corner",
             corner |-> At(F_f, xi)[CHOOSE k \in proper : \A q \in proper : k <= q]]

\* coeffs_singular[i]: one row per singular point of the face; the row of
\* a negative index is built with j.imag, the imaginary part of the loop
\* counter, where the others have zj.imag
SingularRows(xi, xsingularities_f, xindices_f) ==
    [j \in 1 .. Len(xsingularities_f[xi]) |->
        [zc |-> xsingularities_f[xi][j],
         zj |-> SecondPoint(xi, xsingularities_f),
         root |-> SumSeq([k \in 1 .. Len(xindices_f[xi]) |-> Abs(xindices_f[xi][k])]),
         form |-> IF xindices_f[xi][j] > 0 THEN "z" ELSE "conj_z_with_j_imag"]]

\* the first face at which the loop over the faces raises, -1 if none:
\* a face that is not singular is looked up in self.F_over_pi
FirstUnsetFace(xattrs, xF_singular) ==
    IF "F_over_pi" \in xattrs \/ \A i \in Idx(F_f) : i \in Range(xF_singular)
    THEN -1
    ELSE CHOOSE i \in Idx(F_f) :
            /\ i \notin Range(xF_singular)
            /\ \A q \in Idx(F_f) : q \notin Range(xF_singular) => i <= q

\* reconstruct_linear_from_corners(U): the error raised, or the three
\* values returned
reconstruct_linear_from_corners(xU, xattrs, xF_singular, xsingularities_f, xindices_f, xF_over_pi, xF_subdivided) ==
    IF FirstUnsetFace(xattrs, xF_singular) # -1
    THEN [err |-> "AttributeError", U |-> xU, coeffs |-> <<>>,
          coeffs_singular |-> EmptyDict, coeffs_subdivided |-> EmptyDict]
    ELSE [err |-> "", U |-> xU,
          coeffs |-> [i \in 1 .. Len(F_f) |->
                        IF (i - 1) \in Range(xF_singular) \cup Range(xF_over_pi)
                        THEN "zeros" ELSE "fitted"],
          coeffs_singular |->
              [i \in Range(xF_singular) |->
                  SingularRows(i, xsingularities_f, xindices_f)],
          coeffs_subdivided |->
              [i \in Range(xF_over_pi) \ Range(xF_singular) |->
                  [j \in 1 .. Len(xF_subdivided[i]) |-> "fitted"]]]

(***************************************************************************)
(* Sampler: sample_field with singular_detail = False                      *)
(***************************************************************************)
\* the number of sample points on one face
PointsPerFace(xnum_samples) == (xnum_samples * (xnum_samples + 1)) \div 2

\* the lookup that raises KeyError or IndexError in the loop over the
\* singular and the subdivided faces, "" if none does
SampleLookupError(xc, xF_singular, xindices_f, xF_over_pi) ==
    LET special == SortSet(Range(xF_singular) \cup Range(xF_over_pi))
        bad(f) == IF f \in Range(xF_singular)
                  THEN IF f \notin DOMAIN xc.coeffs_singular THEN "KeyError"
                       ELSE IF Len(xc.coeffs_singular[f]) < Len(xindices_f[f])
                       THEN "IndexError" ELSE ""
                  ELSE IF f \notin DOMAIN xc.coeffs_subdivided
                       THEN "KeyError" ELSE ""
        first == {k \in 1 .. Len(special) :
                     /\ bad(special[k]) # ""
                     /\ \A q \in 1 .. (k - 1) : bad(special[q]) = ""}
    IN IF first = {} THEN "" ELSE bad(special[CHOOSE k \in first : TRUE])

\* sample_field(coeffs, coeffs_singular, coeffs_subdivided, num_samples):
\* the error raised, or the number of points and F_involved
sample_field(xc, xnum_samples, xattrs, xF_singular, xindices_f, xF_over_pi) ==
    LET special == SortSet(Range(xF_singular) \cup Range(xF_over_pi))
        F_trivial == SortSet(Idx(F) \ Range(special))
        per == PointsPerFace(xnum_samples)
        dense == Flatten([k \in 1 .. Len(special) |->
                             [q \in 1 .. per |-> special[k]]])
        rest == Flatten([k \in 1 .. per |-> F_trivial])
    IN IF {"F_singular", "F_over_pi"} \ xattrs # {}
       THEN [err |-> "AttributeError", points |-> 0, F_involved |-> <<>>]
       ELSE IF xnum_samples = 1
       THEN [err |-> "ZeroDivisionError", points |-> 0, F_involved |-> <<>>]
       ELSE IF SampleLookupError(xc, xF_singular, xindices_f, xF_over_pi) # ""
       THEN [err |-> SampleLookupError(xc, xF_singular, xindices_f, xF_over_pi),
             points |-> 0, F_involved |-> <<>>]
       ELSE [err |-> "", points |-> Len(dense) + Len(rest),
             F_involved |-> dense \o rest]

(***************************************************************************)
(* The requests made of a mesh context                                     *)
(***************************************************************************)
\* the most singularities in one request
MaxSing == 2

\* the most calls of compute_thetas and corner_field on one context
MaxCalls == 2

\* the frames of the faces: along the first edge, turned away from it by
\* 30 degrees, and along it with the other handedness
Frames == {[turn |-> 0, hand |-> 1], [turn |-> 30, hand |-> 1],
           [turn |-> 0, hand |-> -1]}

\* a point with an index.  On the tetrahedron: a vertex, the middle of an
\* edge, the centre of a face, and the centre of the solid, which is on no
\* face; elsewhere a point far from the mesh
Placements(xV) ==
    IF xV = TetraMesh.V
    THEN {[point |-> <<3, 3, 3>>, index |-> 1],
          [point |-> <<3, 0, 0>>, index |-> -1],
          [point |-> <<1, 1, -1>>, index |-> 1],
          [point |-> <<0, 0, 0>>, index |-> 1],
          [point |-> <<0, 0, 0>>, index |-> 0]}
    ELSE {[point |-> <<9, 9, 9>>, index |-> 1]}

PlacementSeqs(xV) ==
    UNION {[1 .. n -> Placements(xV)] : n \in 0 .. MaxSing}

\* the values given for non_contractible_indices; not given means None
LoopIndices(xcycles) ==
    IF Len(xcycles) = 2
    THEN {[given |-> FALSE, val |-> <<>>], [given |-> TRUE, val |-> <<1, 0>>],
          [given |-> TRUE, val |-> <<0, 0>>]}
    ELSE {[given |-> FALSE, val |-> <<>>]}

\* the requests whose two lists have the same length ...
MatchedRequests(xV, xcycles) ==
    {[singularities |-> [k \in 1 .. Len(ps) |-> ps[k].point],
      indices |-> [k \in 1 .. Len(ps) |-> ps[k].index],
      weight_comb |-> 10,
      non_contractible_indices |-> n] :
        ps \in PlacementSeqs(xV), n \in LoopIndices(xcycles)}
    \cup
    {[singularities |-> [k \in 1 .. Len(ps) |-> ps[k].point],
      indices |-> [k \in 1 .. Len(ps) |-> ps[k].index],
      weight_comb |-> 1,
      non_contractible_indices |-> [given |-> FALSE, val |-> <<>>]] :
        ps \in {q \in PlacementSeqs(xV) : Len(q) = 0}}

\* ... and those where they differ
MismatchedRequests ==
    {[singularities |-> <<<<0, 0, 0>>>>, indices |-> <<>>, weight_comb |-> 10,
      non_contractible_indices |-> [given |-> FALSE, val |-> <<>>]],
     [singularities |-> <<>>, indices |-> <<1>>, weight_comb |-> 10,
      non_contractible_indices |-> [given |-> FALSE, val |-> <<>>]]}

Requests(xV, xcycles) ==
    MatchedRequests(xV, xcycles) \cup MismatchedRequests

NoRequest ==
    [singularities |-> <<>>, indices |-> <<>>, weight_comb |-> 0,
     non_contractible_indices |-> [given |-> FALSE, val |-> <<>>]]

NoU == [Theta_complete |-> <<>>, v_init |-> -1, z_init |-> 0]

NoCoeffs ==
    [err |-> "unset", U |-> NoU, coeffs |-> <<>>,
     coeffs_singular |-> EmptyDict, coeffs_subdivided |-> EmptyDict]

NoSamples == [err |-> "unset", points |-> 0, F_involved |-> <<>>]

\* no choice of a second point is under way
NoSecondPoint ==
    [at |-> "idle", Zc |-> <<>>, k |-> 0, proper_second_point |-> FALSE,
     zf |-> <<>>, zj |-> <<>>, retries |-> 0]

(***************************************************************************)
(* The object and its operations                                           *)
(***************************************************************************)
\* the fields and the caller's values before __init__
Unbuilt ==
    /\ pc = "start" /\ err = ""
    /\ V = <<>> /\ F = <<>> /\ E = <<>> /\ G_V = <<>>
    /\ genus = [num |-> 0, den |-> 2] /\ B1 = <<>>
    /\ E_co = <<>> /\ E_non_contractible_cycles = <<>>
    /\ V_extended = <<>> /\ E_twin = <<>> /\ E_comb = <<>> /\ E_extended = <<>>
    /\ F_f = <<>> /\ F_e = <<>> /\ F_v = <<>> /\ V_map = <<>>
    /\ F_v_map_E_comb = <<>> /\ G_F = <<>> /\ d1 = <<>>
    /\ pair_rotations = <<>> /\ H = <<>> /\ G_H = <<>>
    /\ attrs = {} /\ I_F = <<>> /\ F_singular = <<>>
    /\ singularities_f = EmptyDict /\ indices_f = EmptyDict /\ V_singular = <<>>
    /\ F_over_pi = <<>> /\ F_subdivided = EmptyDict
    /\ V_subdivided = EmptyDict /\ U_subdivided = EmptyDict
    /\ args = NoRequest /\ mask_removed_f = <<>> /\ mask_removed_e = <<>>
    /\ KKT = NoKKT /\ Theta = <<>>
    /\ U = NoU /\ coeffs = NoCoeffs /\ samples = NoSamples /\ calls = 0

Init == Unbuilt /\ second_point = NoSecondPoint

\* Triangle_mesh(V, F): __init__.  The angle defect of a vertex
\* (compute_angle_defect) is kept as the term G_V[v]; the frames
\* (compute_planes) are laid on every face in the same way.
Construct(xm, xframe) ==
    /\ pc = "start"
    /\ \E e \in {obtain_E(xm.F)} :
       \E g \in {GenusOf(Len(xm.V), Len(e), Len(xm.F))} :
       \E hb \in {get_homology_basis(xm.F, e, g)} :
          /\ V' = xm.V /\ F' = xm.F /\ E' = e
          /\ G_V' = [v \in 1 .. Len(xm.V) |-> Term(1, "G_V", v - 1)]
          /\ genus' = g
          /\ B1' = [f \in 1 .. Len(xm.F) |-> xframe]
          /\ E_co' = hb.E_co
          /\ E_non_contractible_cycles' = hb.cycles
          /\ pc' = IF hb.ok THEN "constructed" ELSE "failed"
          /\ err' = hb.err
    /\ UNCHANGED <<extended, attrs, thetas_state, subdivision, last_call,
                   U, coeffs, samples, calls, second_point>>

\* the three steps that follow construct_extended_mesh, on its result em,
\* up to the first that raises
LaterSteps(xem, xcycles) ==
    LET dd == construct_d1_extended(xem.E_extended, xem.E_twin, xem.F_f,
                                    xem.F_e, xem.F_v, xem.F_v_map_E_comb)
        pr == compute_face_pair_rotation(xem.E_comb, xem.F_e)
        he == compute_homology_extended(xem.E_extended, xem.E_twin, xem.V_map,
                  xem.F_v, xem.F_v_map_E_comb, xcycles)
    IN IF ~dd.ok
       THEN [err |-> dd.err, d1 |-> <<>>, pair_rotations |-> <<>>,
             H |-> <<>>, G_H |-> <<>>]
       ELSE IF ~pr.ok
       THEN [err |-> pr.err, d1 |-> dd.d1, pair_rotations |-> <<>>,
             H |-> <<>>, G_H |-> <<>>]
       ELSE [err |-> he.err, d1 |-> dd.d1,
             pair_rotations |-> pr.pair_rotations,
             H |-> IF he.ok THEN he.H ELSE <<>>,
             G_H |-> IF he.ok THEN he.G_H ELSE <<>>]

\* initialise_field_processing: the four steps in turn, up to the first
\* that raises
initialise_field_processing ==
    /\ pc = "constructed"
    /\ \E em \in {construct_extended_mesh(V, F, E, G_V)} :
          IF ~em.ok
          THEN /\ pc' = "not_initialised" /\ err' = em.err
               /\ UNCHANGED extended
          ELSE \E ls \in {LaterSteps(em, E_non_contractible_cycles)} :
               /\ V_extended' = em.V_extended /\ E_twin' = em.E_twin
               /\ E_comb' = em.E_comb /\ E_extended' = em.E_extended
               /\ F_f' = em.F_f /\ F_e' = em.F_e /\ F_v' = em.F_v
               /\ V_map' = em.V_map /\ F_v_map_E_comb' = em.F_v_map_E_comb
               /\ G_F' = em.G_F
               /\ d1' = ls.d1 /\ pair_rotations' = ls.pair_rotations
               /\ H' = ls.H /\ G_H' = ls.G_H
               /\ pc' = IF ls.err = "" THEN "ready" ELSE "not_initialised"
               /\ err' = ls.err
    /\ UNCHANGED <<topology, attrs, thetas_state, subdivision, last_call,
                   U, coeffs, samples, calls, second_point>>

\* the fields of the object and the values of the call after
\* compute_thetas(req) came out as out
AfterThetas(xreq, xout, xassigned) ==
    /\ args' = xreq
    /\ err' = xout.err
    /\ mask_removed_f' = xout.mask_removed_f
    /\ mask_removed_e' = xout.mask_removed_e
    /\ KKT' = xout.KKT
    /\ IF xout.reset
       THEN /\ I_F' = [r \in 1 .. NumFaces |-> 0]
            /\ F_singular' = xout.F_singular
            /\ singularities_f' = xout.singularities_f
            /\ indices_f' = xout.indices_f
            /\ V_singular' = xout.V_singular
            /\ attrs' = attrs \cup xassigned
                           \cup {"I_F", "F_singular", "singularities_f",
                                 "indices_f", "V_singular"}
       ELSE UNCHANGED <<thetas_state, attrs>>

\* Theta = compute_thetas(singularities, indices, weight_comb,
\* non_contractible_indices); the caller starts a new request and drops
\* what it held of the last one
ComputeThetas(xreq) ==
    /\ pc = "ready" /\ calls < MaxCalls
    /\ calls' = calls + 1
    /\ \E out \in {compute_thetas(xreq, StartState(F_singular, singularities_f,
                                                   indices_f, V_singular))} :
          /\ AfterThetas(xreq, out, {})
          /\ Theta' = out.Theta
    /\ U' = NoU /\ coeffs' = NoCoeffs /\ samples' = NoSamples
    /\ UNCHANGED <<pc, context, second_point, subdivision>>

\* U = reconstruct_corners_from_thetas(Theta, v_init, z_init) on the Theta
\* the caller holds
ReconstructCorners(xv_init, xz_init) ==
    /\ pc = "ready" /\ Theta # <<>>
    /\ \E rc \in {reconstruct_corners_from_thetas(Theta, xv_init, xz_init)} :
          U' = rc.U /\ Theta' = rc.Theta
    /\ err' = ""
    /\ UNCHANGED <<pc, context, second_point, attrs, thetas_state, subdivision, args,
                   mask_removed_f, mask_removed_e, KKT, coeffs, samples, calls>>

\* subdivide_faces_over_pi(Theta, U) on the Theta and U the caller holds
SubdivideFacesOverPi ==
    /\ pc = "ready" /\ Theta # <<>> /\ U # NoU
    /\ \E sd \in {subdivide_faces_over_pi(Theta, U, F_singular)} :
          /\ F_over_pi' = sd.F_over_pi /\ F_subdivided' = sd.F_subdivided
          /\ V_subdivided' = sd.V_subdivided /\ U_subdivided' = sd.U_subdivided
    /\ attrs' = attrs \cup {"F_over_pi", "F_subdivided", "V_subdivided",
                            "U_subdivided"}
    /\ err' = ""
    /\ UNCHANGED <<pc, context, second_point, thetas_state, last_call, U, coeffs, samples, calls>>

\* coeffs, coeffs_singular, coeffs_subdivided =
\* reconstruct_linear_from_corners(U) on the U the caller holds
ReconstructLinear ==
    /\ pc = "ready" /\ U # NoU
    /\ \E rl \in {reconstruct_linear_from_corners(U, attrs, F_singular,
                      singularities_f, indices_f, F_over_pi, F_subdivided)} :
          /\ err' = rl.err
          /\ coeffs' = IF rl.err = "" THEN rl ELSE coeffs
    /\ UNCHANGED <<pc, context, second_point, attrs, thetas_state, subdivision, last_call,
                   U, samples, calls>>

\* sample_field(coeffs, coeffs_singular, coeffs_subdivided, num_samples)
\* on the coefficients the caller holds
SampleField(xnum_samples) ==
    /\ pc = "ready" /\ coeffs # NoCoeffs
    /\ \E sf \in {sample_field(coeffs, xnum_samples, attrs, F_singular,
                               indices_f, F_over_pi)} :
          /\ err' = sf.err
          /\ samples' = IF sf.err = "" THEN sf ELSE samples
    /\ UNCHANGED <<pc, context, second_point, attrs, thetas_state, subdivision, last_call,
                   U, coeffs, calls>>

\* U = corner_field(singularities, indices, v_init, z_init,
\* non_contractible_indices): the three calls in turn, with the default
\* weight_comb, up to the first that raises
CornerField(xreq, xv_init, xz_init) ==
    /\ pc = "ready" /\ calls < MaxCalls /\ xreq.weight_comb = 10
    /\ calls' = calls + 1
    /\ coeffs' = NoCoeffs /\ samples' = NoSamples
    /\ \E out \in {compute_thetas(xreq, StartState(F_singular, singularities_f,
                                                   indices_f, V_singular))} :
          IF out.err # ""
          THEN /\ AfterThetas(xreq, out, {})
               /\ Theta' = out.Theta /\ U' = NoU
               /\ UNCHANGED subdivision
          ELSE \E rc \in {reconstruct_corners_from_thetas(out.Theta, xv_init, xz_init)} :
               \E sd \in {subdivide_faces_over_pi(rc.Theta, rc.U, out.F_singular)} :
                  /\ AfterThetas(xreq, out, {"F_over_pi", "F_subdivided",
                                             "V_subdivided", "U_subdivided"})
                  /\ Theta' = rc.Theta /\ U' = rc.U
                  /\ F_over_pi' = sd.F_over_pi /\ F_subdivided' = sd.F_subdivided
                  /\ V_subdivided' = sd.V_subdivided
                  /\ U_subdivided' = sd.U_subdivided
    /\ UNCHANGED <<pc, context, second_point>>

\* the values the caller passes for v_init, z_init and num_samples
CornerInits == {0}

SampleCounts == {3}

Next ==
    \/ \E m \in Meshes, b \in Frames : Construct(m, b)
    \/ initialise_field_processing
    \/ \E req \in Requests(V, E_non_contractible_cycles) :
          ComputeThetas(req)
    \/ \E v \in CornerInits : ReconstructCorners(v, 1)
    \/ SubdivideFacesOverPi
    \/ ReconstructLinear
    \/ \E n \in SampleCounts : SampleField(n)
    \/ \E req \in Requests(V, E_non_contractible_cycles), v \in CornerInits :
          CornerField(req, v, 1)

Spec == Init /\ [][Next]_vars

(***************************************************************************)
(* The choice of the second point on a singular face, one step of its two  *)
(* loops at a time.  A point of the plane of the face is kept as its three *)
(* weights on the corners of the face, in quarters: Zf[k] has the weight 4 *)
(* on the corner k.                                                        *)
(***************************************************************************)
\* the most singular points on the face
MaxOnFace == 4

\* Zf: the corners of the face
Zf == <<<<4, 0, 0>>, <<0, 4, 0>>, <<0, 0, 4>>>>

\* the points a singularity of the face may be at: its corners, the middle
\* of its edge from the first to the last corner, and a point inside
FacePoints == Range(Zf) \cup {<<2, 0, 2>>, <<2, 1, 1>>}

\* the lists singularities_f[i] the choice is made for
SingularLists == UNION {[1 .. n -> FacePoints] : n \in 1 .. MaxOnFace}

\* the values of x = random.random() and y = random.random() * x, in
\* quarters: 0 <= x < 1, and 0 <= y < x unless x is 0
RandomDraws == {d \in (0 .. 3) \X (0 .. 3) : d[2] < d[1] \/ d = <<0, 0>>}

\* zf = x * Zf[0] + y * Zf[1] + (1 - x - y) * Zf[2]
Combine(xd) == <<xd[1], xd[2], 4 - xd[1] - xd[2]>>

\* the test against the first singular point alone
NotFirstOfZc(xzf, xZc) == xzf # xZc[1]

\* zf not in Zc
NotInZc(xzf, xZc) == xzf \notin Range(xZc)

AuxInit ==
    /\ Unbuilt
    /\ second_point \in
         {[at |-> "for", Zc |-> zc, k |-> 0, proper_second_point |-> FALSE,
           zf |-> <<>>, zj |-> <<>>, retries |-> 0] : zc \in SingularLists}

\* one turn of "for zf, uf in zip(Zf, Uf)": the corner k is taken and the
\* loop left if it is no singular point, else the next corner comes
ForCorner ==
    /\ second_point.at = "for"
    /\ second_point' =
         IF NotInZc(At(Zf, second_point.k), second_point.Zc)
         THEN [second_point EXCEPT !.zf = At(Zf, second_point.k),
                                   !.zj = At(Zf, second_point.k),
                                   !.proper_second_point = TRUE,
                                   !.at = "while"]
         ELSE [second_point EXCEPT !.zf = At(Zf, second_point.k),
                                   !.k = second_point.k + 1,
                                   !.at = IF second_point.k + 1 < Len(Zf)
                                          THEN "for" ELSE "while"]
    /\ UNCHANGED <<pc, err, context, attrs, thetas_state, subdivision,
                   last_call, U, coeffs, samples, calls>>

\* "while not proper_second_point" with the point found
WhileExit ==
    /\ second_point.at = "while" /\ second_point.proper_second_point
    /\ second_point' = [second_point EXCEPT !.at = "done"]
    /\ UNCHANGED <<pc, err, context, attrs, thetas_state, subdivision,
                   last_call, U, coeffs, samples, calls>>

\* one turn of the while loop with the draw d; retries counts the draws
\* turned down, up to 2
WhileDraw(xd) ==
    /\ second_point.at = "while" /\ ~second_point.proper_second_point
    /\ second_point' =
         IF NotInZc(Combine(xd), second_point.Zc)
         THEN [second_point EXCEPT !.zf = Combine(xd), !.zj = Combine(xd),
                                   !.proper_second_point = TRUE]
         ELSE [second_point EXCEPT !.zf = Combine(xd),
                                   !.retries = Min2(second_point.retries + 1, 2)]
    /\ UNCHANGED <<pc, err, context, attrs, thetas_state, subdivision,
                   last_call, U, coeffs, samples, calls>>

AuxNext ==
    \/ ForCorner
    \/ WhileExit
    \/ \E d \in RandomDraws : WhileDraw(d)

\* a turn of the while loop whose draw is no singular point
ProperDraw ==
    \E d \in RandomDraws : WhileDraw(d) /\ second_point'.proper_second_point

\* the loops go on, and the random draws do not avoid for ever the points
\* that are no singular point
AuxSpec ==
    AuxInit /\ [][AuxNext]_vars /\ WF_vars(AuxNext) /\ WF_vars(ProperDraw)

\* the same without the condition on the random draws
AuxSpecAnyDraws == AuxInit /\ [][AuxNext]_vars /\ WF_vars(AuxNext)

(***************************************************************************)
(* Properties                                                              *)
(***************************************************************************)
\* the object came out of __init__
Constructed == pc \in {"constructed", "ready", "not_initialised"}

\* the last call of compute_thetas got past the check of the lengths
LastCallPlaced ==
    /\ pc = "ready" /\ calls > 0
    /\ Len(args.singularities) = Len(args.indices)

\* the last call of compute_thetas returned a Theta
LastCallReturned == LastCallPlaced /\ Theta # <<>>

\* C1: building the context of a mesh with boundary, the two triangles of
\* the patch, completes without raising, and its one interior edge gets
\* the one edge-face
C1_BoundaryMeshBuilds ==
    V = PatchMesh.V =>
        /\ pc \notin {"failed", "not_initialised"}
        /\ pc = "ready" => Len(F_e) = 1

\* C2: on the torus, a returned Theta for non_contractible_indices = [1, 0]
\* and no singularities was solved with every row of H among the
\* constraints, and differs from the Theta for [0, 0]
C2_HolonomyEnforced ==
    (/\ LastCallReturned
     /\ Len(H) = 2
     /\ args.singularities = <<>>
     /\ args.non_contractible_indices = [given |-> TRUE, val |-> <<1, 0>>])
    => /\ \A i \in 1 .. Len(H) : H[i] \in Range(KKT.E)
       /\ Theta # compute_thetas(
                     [args EXCEPT !.non_contractible_indices.val = <<0, 0>>],
                     ResetState).Theta

\* C3: once __init__ is over, either it failed or there are exactly
\* 2 * genus cotree edges and as many cycles
C3_CotreeCount ==
    pc # "start" =>
        \/ pc = "failed"
        \/ /\ Len(E_co) * genus.den = 2 * genus.num
           /\ Len(E_non_contractible_cycles) * genus.den = 2 * genus.num

C3_Witness ==
    /\ pc = "constructed"
    /\ genus.num = 2
    /\ Len(E_non_contractible_cycles) = 2

\* C4: on every constructed mesh the genus is (2 - (|V| - |E| + |F|)) / 2
\* and a non-negative integer
C4_GenusIsNaturalNumber ==
    Constructed =>
        /\ genus = GenusOf(Len(V), Len(E), Len(F))
        /\ genus.num >= 0
        /\ genus.num % genus.den = 0

\* the positions of the rows and of the columns left free
FreeRows == {r \in 1 .. Len(mask_removed_f) : mask_removed_f[r]}

FreeCols == {c \in 1 .. Len(mask_removed_e) : mask_removed_e[c]}

\* the number of the free positions up to k
Rank(xfree, xk) == Cardinality({q \in xfree : q <= xk})

\* G_F + d1 . Theta_fixed on the row r, Theta_fixed being the returned Theta
\* on the removed edges and 0 on the free ones
FixedResidual(xr) ==
    AddAng(G_F[xr],
           Ang(SumSeq([c \in 1 .. Len(E_extended) |->
                          IF c \in FreeCols THEN 0 ELSE d1[xr][c] * Theta[c].deg])))

\* C5: the constraint block of the system solved is d1 on the free rows and
\* the free columns, and its right-hand side is -(G_F + d1 . Theta_fixed)
\* on the free rows
C5_ConstraintBlock ==
    LastCallReturned =>
        /\ Len(KKT.E) = Cardinality(FreeRows)
        /\ Len(KKT.d) = Cardinality(FreeRows)
        /\ \A r \in FreeRows :
              /\ Len(KKT.E[Rank(FreeRows, r)]) = Cardinality(FreeCols)
              /\ \A c \in FreeCols :
                    KKT.E[Rank(FreeRows, r)][Rank(FreeCols, c)] = d1[r][c]
              /\ KKT.d[Rank(FreeRows, r)] = NegAng(FixedResidual(r))

C5_Witness ==
    /\ LastCallReturned
    /\ \E r \in FreeRows : FixedResidual(r).deg # 0
    /\ \E r \in 1 .. Len(mask_removed_f) : r \notin FreeRows

\* the point lies on the surface: in a triangle of the mesh, its edges and
\* corners included
OnSurface(xp) ==
    \E f \in Idx(F) : InTriangle(At(V, At(F, f)[1]), At(V, At(F, f)[2]),
                                 At(V, At(F, f)[3]), xp)

\* the point passes none of the three tests of the loop
FailsEveryTest(xp) ==
    /\ Len(in_F_v(xp)) # 1
    /\ Len(in_F_e(xp)) # 1
    /\ is_in_face(V_extended, F_f, xp) = -1

\* C6: a call with a singularity of nonzero index that is not on the surface
\* raises and returns no Theta, and the placement error is raised only on a
\* singularity of nonzero index that passes none of the three tests
C6_PlacementError ==
    LastCallPlaced =>
        /\ (\E k \in 1 .. Len(args.indices) :
               args.indices[k] # 0 /\ ~OnSurface(args.singularities[k]))
           => (err # "" /\ Theta = <<>>)
        /\ err = "NotInAnyFaceEdgeOrVertex"
           => \E k \in 1 .. Len(args.indices) :
                 args.indices[k] # 0 /\ FailsEveryTest(args.singularities[k])

C6_Witness ==
    /\ LastCallPlaced
    /\ err = "NotInAnyFaceEdgeOrVertex"
    /\ \E k \in 1 .. Len(args.indices) :
          args.indices[k] # 0 /\ OnSurface(args.singularities[k])

\* the request without its entries of index 0
WithoutZeros(xreq) ==
    LET kept == SelectSeq([k \in 1 .. Len(xreq.indices) |-> k],
                          LAMBDA k : xreq.indices[k] # 0)
    IN [xreq EXCEPT !.singularities = [k \in 1 .. Len(kept) |-> xreq.singularities[kept[k]]],
                    !.indices = [k \in 1 .. Len(kept) |-> xreq.indices[kept[k]]]]

\* C7: the masks, the request state, the Theta and the error a call leaves
\* are those of the call without the entries of index 0
C7_ZeroIndexIsNoOp ==
    LastCallPlaced =>
        \E ref \in {compute_thetas(WithoutZeros(args), ResetState)} :
            /\ mask_removed_f = ref.mask_removed_f
            /\ mask_removed_e = ref.mask_removed_e
            /\ F_singular = ref.F_singular
            /\ singularities_f = ref.singularities_f
            /\ indices_f = ref.indices_f
            /\ V_singular = ref.V_singular
            /\ Theta = ref.Theta
            /\ err = "NotInAnyFaceEdgeOrVertex" <=> ref.err = "NotInAnyFaceEdgeOrVertex"

C7_Witness ==
    /\ LastCallReturned
    /\ \E k \in 1 .. Len(args.indices) :
          args.indices[k] = 0 /\ ~OnSurface(args.singularities[k])
    /\ \E k \in 1 .. Len(args.indices) : args.indices[k] # 0
    /\ F_singular # <<>>

\* the faces that the vertex branch or the edge branch hands to
\* deal_singularity for the point p; none when p is on no vertex and no edge
LocatedFaces(xp) ==
    IF Len(in_F_v(xp)) = 1
    THEN Range(FacesOfVertex(F, in_F_v(xp)[1]))
    ELSE IF Len(in_F_e(xp)) = 1
    THEN {FaceOfTwin(<<At(F_e, in_F_e(xp)[1])[1], At(F_e, in_F_e(xp)[1])[2]>>),
          FaceOfTwin(<<At(F_e, in_F_e(xp)[1])[3], At(F_e, in_F_e(xp)[1])[4]>>)}
    ELSE {}

\* the wrapped rotations of the edges of the face f around the point p
RawRotations(xf, xp) ==
    LET e_f == EdgesWithin(E_extended, At(F_f, xf))
    IN WrappedRotations(xf,
           [k \in 1 .. Len(e_f) |->
               Sub3(xp, At(V_extended, At(E_extended, e_f[k])[1]))],
           [k \in 1 .. Len(e_f) |->
               Sub3(xp, At(V_extended, At(E_extended, e_f[k])[2]))])

\* their sum once the component of largest magnitude has changed sign, which
\* it does when the sum is 2 pi or -2 pi
RotationSum(xf, xp) ==
    LET rot == RawRotations(xf, xp)
    IN IF Abs(SumSeq(rot)) = 360
       THEN SumSeq(rot) - 2 * rot[ArgMaxAbs(rot)]
       ELSE SumSeq(rot)

\* the singularities of the last request that lie on a vertex or an edge
\* and have an index other than 0
Located ==
    {k \in 1 .. Len(args.indices) :
        args.indices[k] # 0 /\ LocatedFaces(args.singularities[k]) # {}}

\* C8 as the code has it: a sum of 2 pi or -2 pi is met by the change of
\* sign of the largest component, and the request goes on only when the sum
\* is then 0; the call raises for the rotations only when the sum of some
\* face around a singularity on a vertex or an edge is still not 0, and
\* then it returns no Theta
C8_FlipThenCheck ==
    LastCallPlaced =>
        /\ (err = "RotationNotZero") =>
              (/\ Theta = <<>>
               /\ \E k \in Located :
                     \E f \in LocatedFaces(args.singularities[k]) :
                        RotationSum(f, args.singularities[k]) # 0)
        /\ (Theta # <<>>) =>
              (\A k \in Located :
                  \A f \in LocatedFaces(args.singularities[k]) :
                     RotationSum(f, args.singularities[k]) = 0)

\* a sum of 2 pi or -2 pi was met, and the call went on and returned
C8_Witness ==
    /\ LastCallReturned
    /\ \E k \in Located :
          \E f \in LocatedFaces(args.singularities[k]) :
             Abs(SumSeq(RawRotations(f, args.singularities[k]))) = 360

\* C8: a call is never ended by an exception on account of the sum of the
\* rotations around a singularity on a vertex or an edge
C8_NeverAborts == LastCallPlaced => err # "RotationNotZero"

\* the local state a call starts from on a context that has served no
\* request
FreshStart == StartState(<<>>, EmptyDict, EmptyDict, <<>>)

\* C9 for the calls that get past the check of the lengths: whatever the
\* requests before it, the call leaves the Theta, the masks and the request
\* state that it leaves as the first call on the context
C9_HistoryIndependent ==
    LastCallPlaced =>
        \E first \in {compute_thetas(args, FreshStart)} :
            /\ Theta = first.Theta
            /\ mask_removed_f = first.mask_removed_f
            /\ mask_removed_e = first.mask_removed_e
            /\ F_singular = first.F_singular
            /\ singularities_f = first.singularities_f
            /\ indices_f = first.indices_f
            /\ V_singular = first.V_singular

\* the second request of a context, with singular faces, has returned
C9_Witness ==
    /\ LastCallReturned
    /\ calls = 2
    /\ F_singular # <<>>
    /\ V_singular # <<>>

\* C9: every call, whatever its arguments and whatever the requests before
\* it, leaves the Theta, the masks and the request state that it leaves as
\* the first call on the context
C9_AnyCallHistoryIndependent ==
    (pc = "ready" /\ calls > 0) =>
        \E first \in {compute_thetas(args, FreshStart)} :
            /\ Theta = first.Theta
            /\ mask_removed_f = first.mask_removed_f
            /\ mask_removed_e = first.mask_removed_e
            /\ F_singular = first.F_singular
            /\ singularities_f = first.singularities_f
            /\ indices_f = first.indices_f
            /\ V_singular = first.V_singular

\* C10: once initialise_field_processing is over no operation changes a
\* field of the mesh context, and an operation that is not a new request
\* leaves the Theta the caller holds as it was
C10_ContextImmutable ==
    [][pc = "ready" =>
         /\ UNCHANGED <<V, F, E, V_extended, E_twin, E_comb, E_extended,
                        F_f, F_e, F_v, V_map, F_v_map_E_comb, G_F, d1,
                        pair_rotations, H, G_H>>
         /\ (calls' = calls) => (Theta' = Theta)]_vars

\* every stage has run on the Theta of a request with a singularity
C10_Witness ==
    /\ LastCallReturned
    /\ F_singular # <<>>
    /\ U # NoU
    /\ "F_over_pi" \in attrs
    /\ coeffs # NoCoeffs
    /\ samples # NoSamples

\* C11: after construct_extended_mesh the face i owns the extended vertices
\* 3i, 3i+1, 3i+2, the copies of its corners, F_f[i] lists them, its twin
\* edges are E_twin[3i+j] = (3i+j, 3i+((j+1) mod 3)), and V_map[v] lists in
\* increasing order exactly the extended vertices that copy v
C11_FaceFacesAndTwins ==
    V_extended # <<>> =>
        /\ Len(V_extended) = 3 * Len(F)
        /\ Len(F_f) = Len(F)
        /\ Len(E_twin) = 3 * Len(F)
        /\ Len(V_map) = Len(V)
        /\ \A i \in Idx(F) :
              /\ At(F_f, i) = <<3 * i, 3 * i + 1, 3 * i + 2>>
              /\ \A j \in 0 .. 2 :
                    /\ At(V_extended, 3 * i + j) = At(V, At(F, i)[j + 1])
                    /\ At(E_twin, 3 * i + j) = <<3 * i + j, 3 * i + ((j + 1) % 3)>>
        /\ \A v \in Idx(V) :
              /\ Range(At(V_map, v))
                   = {3 * i + j : <<i, j>> \in
                         {p \in Idx(F) \X (0 .. 2) : At(F, p[1])[p[2] + 1] = v}}
              /\ \A k \in 1 .. (Len(At(V_map, v)) - 1) :
                    At(V_map, v)[k] < At(V_map, v)[k + 1]

\* the extended mesh of the torus, each vertex of which lies on six faces
C11_Witness ==
    /\ pc = "ready"
    /\ Len(F) = 18
    /\ Len(V_extended) = 54
    /\ \A v \in Idx(V) : Len(At(V_map, v)) = 6

\* the directed edges of the faces, following each face's winding
DirectedEdges(xF) == {<<i, j>> \in Idx(xF) \X (0 .. 2) : TRUE}

\* every edge is traversed by exactly two faces, once in each direction
ConsistentlyWound(xF) ==
    \A p \in DirectedEdges(xF) :
        LET a == At(xF, p[1])[p[2] + 1]
            b == At(xF, p[1])[((p[2] + 1) % 3) + 1]
        IN /\ Cardinality({q \in DirectedEdges(xF) :
                              /\ At(xF, q[1])[q[2] + 1] = b
                              /\ At(xF, q[1])[((q[2] + 1) % 3) + 1] = a}) = 1
           /\ Cardinality({q \in DirectedEdges(xF) :
                              /\ At(xF, q[1])[q[2] + 1] = a
                              /\ At(xF, q[1])[((q[2] + 1) % 3) + 1] = b}) = 1

\* the link edge of the corner xc of a face: the edge opposite to the corner,
\* from LinkTail to LinkHead in the face's winding
LinkTail(xc) == At(F, xc \div 3)[(((xc % 3) + 1) % 3) + 1]

LinkHead(xc) == At(F, xc \div 3)[(((xc % 3) + 2) % 3) + 1]

\* C12: on a consistently wound closed mesh every vertex-face, and the
\* combinatorial edges made from it, go round the vertex in the direction in
\* which each incident face's winding traverses its link edge
C12_VertexFacesCounterClockwise ==
    (F_v # <<>> /\ ConsistentlyWound(F)) =>
        \A i \in Idx(F_v) : \A k \in 1 .. Len(At(F_v, i)) :
            LET a == At(F_v, i)[k]
                b == At(F_v, i)[(k % Len(At(F_v, i))) + 1]
            IN /\ LinkHead(a) = LinkTail(b)
               /\ At(E_comb, At(F_v_map_E_comb, i)[k]) = <<a, b>>

\* xb comes right after xa in the cyclic order of the loop xf
Follows(xf, xa, xb) == \E k \in 1 .. Len(xf) : xf[k] = xa /\ xf[(k % Len(xf)) + 1] = xb

\* C13: in the row of d1 of every edge-face, a boundary edge a -> b of the
\* face has the coefficient +1 when b follows a in the loop F_e[i] and -1
\* when a follows b
C13_EdgeFaceRowSigns ==
    d1 # <<>> =>
        \A i \in Idx(F_e) : \A c \in Idx(E_extended) :
            LET f == At(F_e, i)
                e == At(E_extended, c)
                entry == At(At(d1, Len(F_f) + i), c)
            IN (e[1] \in Range(f) /\ e[2] \in Range(f)) =>
                  /\ Follows(f, e[1], e[2]) => entry = 1
                  /\ Follows(f, e[2], e[1]) => entry = -1

\* the edge-faces, and the corner pair of each, that join the end points of
\* the combinatorial edge xk
PairOwners(xk) ==
    {w \in Idx(F_e) \X (1 .. 2) :
        Range(CornerPairs(At(F_e, w[1]))[w[2]]) = Range(At(E_comb, xk))}

\* C14: on a closed mesh every combinatorial edge a -> b lies in exactly one
\* edge-face, which writes its pair rotation: the rotation of that edge-face
\* (from the face of its first corner to the face of its last) when a is on
\* the side of the first face and b on the other, and its negative when the
\* edge runs the other way
C14_PairRotationWrittenOnce ==
    pair_rotations # <<>> =>
        /\ Len(pair_rotations) = Len(E_comb)
        /\ \A k \in Idx(E_comb) :
              /\ Cardinality(PairOwners(k)) = 1
              /\ \A w \in PairOwners(k) :
                    LET a == At(E_comb, k)[1]
                        b == At(E_comb, k)[2]
                        face1 == At(F_e, w[1])[1] \div 3
                        face2 == At(F_e, w[1])[4] \div 3
                    IN /\ face1 # face2
                       /\ {a \div 3, b \div 3} = {face1, face2}
                       /\ At(pair_rotations, k)
                            = Term(IF a \div 3 = face1 THEN 1 ELSE -1, "rotation", w[1])

\* a mesh is ready on which some combinatorial edge runs from the first face
\* of its edge-face to the second and another one from the second to the first
C14_Witness ==
    /\ pc = "ready"
    /\ \E k \in Idx(E_comb) : \E i \in Idx(F_e) :
          At(pair_rotations, k) = Term(1, "rotation", i)
    /\ \E k \in Idx(E_comb) : \E i \in Idx(F_e) :
          At(pair_rotations, k) = Term(-1, "rotation", i)

\* the entries of the last request with an index other than 0
NonZero == {k \in 1 .. Len(args.indices) : args.indices[k] # 0}

\* the rows of the edge-faces and of the vertex-faces
EdgeFaceRows == (Len(F_f) + 1) .. (Len(F_f) + Len(F_e))

VertexFaceRows == (Len(F_f) + Len(F_e) + 1) .. NumFaces

\* every face of the set xfaces, and no other, holds the point xp once
HoldOnce(xfaces, xp) ==
    /\ Range(F_singular) = xfaces
    /\ DOMAIN singularities_f = xfaces
    /\ \A f \in xfaces : singularities_f[f] = <<xp>>

\* C15: a singularity of index other than 0 gets one treatment, that of the
\* first test it passes in the order vertex, edge, face: on one vertex it is
\* dealt with on the faces of the vertex and fixes the vertex-face, whatever
\* the other tests say; else on one edge it is dealt with on the two faces of
\* the edge and fixes the edge-face, whatever the face test says; else it
\* is dealt with in the face that holds it
C15_ClassificationPriority ==
    (LastCallReturned /\ Cardinality(NonZero) = 1) =>
        \A k \in NonZero :
            LET p == args.singularities[k]
            IN IF Len(in_F_v(p)) = 1
               THEN /\ V_singular = At(V_map, in_F_v(p)[1])
                    /\ ~mask_removed_f[Len(F_f) + Len(F_e) + in_F_v(p)[1] + 1]
                    /\ HoldOnce(Range(FacesOfVertex(F, in_F_v(p)[1])), p)
               ELSE IF Len(in_F_e(p)) = 1
               THEN /\ V_singular = <<>>
                    /\ ~mask_removed_f[Len(F_f) + in_F_e(p)[1] + 1]
                    /\ \A r \in VertexFaceRows : mask_removed_f[r]
                    /\ HoldOnce({At(F_e, in_F_e(p)[1])[1] \div 3,
                                 At(F_e, in_F_e(p)[1])[3] \div 3}, p)
               ELSE /\ V_singular = <<>>
                    /\ \A r \in EdgeFaceRows \cup VertexFaceRows : mask_removed_f[r]
                    /\ HoldOnce({is_in_face(V_extended, F_f, p)}, p)

\* a call returned whose one singularity is on a vertex and passes the test
\* of the faces too
C15_Witness ==
    /\ LastCallReturned
    /\ Cardinality(NonZero) = 1
    /\ \A k \in NonZero :
          /\ Len(in_F_v(args.singularities[k])) = 1
          /\ is_in_face(V_extended, F_f, args.singularities[k]) # -1
    /\ V_singular # <<>>

\* a call returned whose one singularity is inside an edge and passes the
\* test of the faces too
C15_EdgeCase ==
    /\ LastCallReturned
    /\ Cardinality(NonZero) = 1
    /\ \A k \in NonZero :
          /\ Len(in_F_v(args.singularities[k])) = 0
          /\ Len(in_F_e(args.singularities[k])) = 1
          /\ is_in_face(V_extended, F_f, args.singularities[k]) # -1

\* a call returned whose one singularity is inside a face
C15_FaceCase ==
    /\ LastCallReturned
    /\ Cardinality(NonZero) = 1
    /\ \A k \in NonZero :
          /\ Len(in_F_v(args.singularities[k])) = 0
          /\ Len(in_F_e(args.singularities[k])) = 0

\* the point xp is on no single vertex and in no single edge, and in a face
FaceLocated(xp) ==
    /\ Len(in_F_v(xp)) # 1
    /\ Len(in_F_e(xp)) # 1
    /\ is_in_face(V_extended, F_f, xp) # -1

\* C16: when the one singularity of index other than 0 of a request lies in
\* the face f, the rows left as constraints are all but the face-face row f,
\* the edges left free are all but the twin edges 3f, 3f+1, 3f+2, and the
\* Theta returned on these three is the angle under which the edge is seen
\* from the point, times the index, as fixed before the solve
C16_FaceSingularityRemovals ==
    (LastCallReturned /\ Cardinality(NonZero) = 1) =>
        \A k \in NonZero :
            LET p == args.singularities[k]
                f == is_in_face(V_extended, F_f, p)
            IN FaceLocated(p) =>
                  /\ FreeRows = (1 .. NumFaces) \ {f + 1}
                  /\ FreeCols = (1 .. Len(E_extended)) \ {3 * f + 1, 3 * f + 2, 3 * f + 3}
                  /\ \A j \in 0 .. 2 :
                        Theta[3 * f + j + 1]
                          = Ang(args.indices[k]
                                  * UnsignedAngle(Sub3(p, At(V_extended, 3 * f + j)),
                                                  Sub3(p, At(V_extended, 3 * f + ((j + 1) % 3)))))

\* a call returned whose one singularity is inside a face, with a fixed
\* value other than 0 on a twin edge of the face
C16_Witness ==
    /\ LastCallReturned
    /\ Cardinality(NonZero) = 1
    /\ \A k \in NonZero :
          /\ FaceLocated(args.singularities[k])
          /\ Theta[3 * is_in_face(V_extended, F_f, args.singularities[k]) + 1] # Ang(0)
          /\ ~mask_removed_e[3 * is_in_face(V_extended, F_f, args.singularities[k]) + 1]

\* the corners of the generalized face of the row xr of d1
GenFace(xr) ==
    IF xr <= Len(F_f) THEN F_f[xr]
    ELSE IF xr <= Len(F_f) + Len(F_e) THEN F_e[xr - Len(F_f)]
    ELSE F_v[xr - Len(F_f) - Len(F_e)]

\* the generalized face of the row xr has a corner at the vertex xv
IncidentRow(xr, xv) == Range(GenFace(xr)) \cap Range(At(V_map, xv)) # {}

\* the point xp is on exactly one vertex
VertexLocated(xp) == Len(in_F_v(xp)) = 1

\* C17: when the one singularity of index other than 0 of a request is on
\* the vertex v, the vertex-face row of v is not a constraint, no
\* combinatorial edge of the vertex-face of v is free, the Theta returned on
\* these edges is the 0 they held before the solve, and every row and every
\* edge taken out belongs to a generalized face with a corner at v
C17_VertexSingularityRemovals ==
    (LastCallReturned /\ Cardinality(NonZero) = 1) =>
        \A k \in NonZero :
            VertexLocated(args.singularities[k]) =>
                LET v == in_F_v(args.singularities[k])[1]
                IN /\ ~mask_removed_f[Len(F_f) + Len(F_e) + v + 1]
                   /\ \A c \in Range(At(F_v_map_E_comb, v)) :
                         /\ ~mask_removed_e[Len(E_twin) + c + 1]
                         /\ Theta[Len(E_twin) + c + 1] = Ang(0)
                   /\ \A r \in (1 .. NumFaces) \ FreeRows : IncidentRow(r, v)
                   /\ \A c \in (1 .. Len(E_extended)) \ FreeCols :
                         \E r \in 1 .. NumFaces :
                            /\ IncidentRow(r, v)
                            /\ E_extended[c][1] \in Range(GenFace(r))
                            /\ E_extended[c][2] \in Range(GenFace(r))

\* a call returned whose one singularity is on a vertex, while some row and
\* some combinatorial edge away from the vertex are left free
C17_Witness ==
    /\ LastCallReturned
    /\ Cardinality(NonZero) = 1
    /\ \A k \in NonZero :
          /\ VertexLocated(args.singularities[k])
          /\ \E r \in FreeRows : ~IncidentRow(r, in_F_v(args.singularities[k])[1])
    /\ \E c \in FreeCols : c > Len(E_twin)

\* the edges of the row xrow of H that enter the extended vertex xx, and
\* those that leave it: an edge with the entry -1 is gone along backwards
Entering(xrow, xx) ==
    {c \in 1 .. Len(E_extended) :
        \/ xrow[c] = 1 /\ E_extended[c][2] = xx
        \/ xrow[c] = -1 /\ E_extended[c][1] = xx}

Leaving(xrow, xx) ==
    {c \in 1 .. Len(E_extended) :
        \/ xrow[c] = 1 /\ E_extended[c][1] = xx
        \/ xrow[c] = -1 /\ E_extended[c][2] = xx}

\* the twin edge of the column xc goes along the row xrow from a corner of
\* the vertex xa to a corner of the vertex xb
TwinFollows(xrow, xc, xa, xb) ==
    \/ /\ xrow[xc] = 1
       /\ E_twin[xc][1] \in Range(At(V_map, xa))
       /\ E_twin[xc][2] \in Range(At(V_map, xb))
    \/ /\ xrow[xc] = -1
       /\ E_twin[xc][2] \in Range(At(V_map, xa))
       /\ E_twin[xc][1] \in Range(At(V_map, xb))

\* C18: H has one row for each cycle of the homology basis, its entries are
\* -1, 0 and 1, each row holds one twin edge for each edge of its cycle, gone
\* along from the edge's first vertex to its second, and at every extended
\* vertex as many edges of the row enter as leave
C18_HomologyRowsClosed ==
    pc = "ready" =>
        /\ Len(H) = Len(E_non_contractible_cycles)
        /\ \A i \in 1 .. Len(H) :
              /\ Len(H[i]) = Len(E_extended)
              /\ \A c \in 1 .. Len(E_extended) : H[i][c] \in {-1, 0, 1}
              /\ Cardinality({c \in 1 .. Len(E_twin) : H[i][c] # 0})
                   = Len(E_non_contractible_cycles[i])
              /\ \A j \in 1 .. Len(E_non_contractible_cycles[i]) :
                    \E c \in 1 .. Len(E_twin) :
                       TwinFollows(H[i], c, E_non_contractible_cycles[i][j][1],
                                   E_non_contractible_cycles[i][j][2])
              /\ \A x \in 0 .. (Len(V_extended) - 1) :
                    Cardinality(Entering(H[i], x)) = Cardinality(Leaving(H[i], x))

\* the torus is ready, with two rows in H, one of which goes along a twin
\* edge backwards and along a combinatorial edge
C18_Witness ==
    /\ pc = "ready"
    /\ Len(H) = 2
    /\ \E i \in 1 .. 2 :
          /\ \E c \in 1 .. Len(E_twin) : H[i][c] = -1
          /\ \E c \in (Len(E_twin) + 1) .. Len(E_extended) : H[i][c] # 0

\* |Theta|, in degrees, on the twin edges of the face xf where it is over
\* pi/2
OverPi(xf) ==
    {Abs(Theta[3 * xf + j + 1].deg) : j \in 0 .. 2} \ (0 .. 90)

Largest(xS) == CHOOSE m \in xS : \A q \in xS : q <= m

\* the faces subdivided are the faces outside F_singular with a twin edge
\* over pi/2, and the face xf is cut into N * N triangles for the level N
\* that xlevel gives for the largest |Theta| of its twin edges
SubdividedAtLevel(xlevel(_)) ==
    \A f \in Idx(F_f) :
        IF OverPi(f) # {} /\ f \notin Range(F_singular)
        THEN /\ f \in Range(F_over_pi)
             /\ f \in DOMAIN F_subdivided
             /\ Len(F_subdivided[f]) = xlevel(Largest(OverPi(f))) * xlevel(Largest(OverPi(f)))
        ELSE /\ f \notin Range(F_over_pi)
             /\ f \notin DOMAIN F_subdivided

\* ceil(m / 90) and floor(m / 90) + 1 for a natural number m of degrees
CeilLevel(xm) == (xm + 89) \div 90

FloorLevel(xm) == (xm \div 90) + 1

\* C19: subdivide_faces_over_pi subdivides the faces outside F_singular that
\* have a twin edge with |Theta| > pi/2, and no other, at the level
\* N = ceil(max |Theta| / (pi/2)), also when |Theta| is a multiple of pi/2
C19_LevelIsCeiling ==
    [][SubdivideFacesOverPi => SubdividedAtLevel(CeilLevel)']_vars

\* the same with the level floor(max |Theta| / (pi/2)) + 1
C19_LevelIsFloorPlusOne ==
    [][SubdivideFacesOverPi => SubdividedAtLevel(FloorLevel)']_vars

\* two points of the barycentric lattice, given by their weights times N,
\* are neighbours
Adjacent(xp, xq) == xp # xq /\ \A c \in 1 .. 3 : Abs(xp[c] - xq[c]) <= 1

\* the face xf is cut at the level xN: (N+1)(N+2)/2 sub-vertices, which are
\* the points of the lattice, each once, and N * N sub-triangles, each with
\* three different indices of sub-vertices that are neighbours of one
\* another, and none listed twice
CutAtLevel(xf, xN) ==
    /\ Len(V_subdivided[xf]) = ((xN + 1) * (xN + 2)) \div 2
    /\ Range(V_subdivided[xf])
         = {p \in (0 .. xN) \X (0 .. xN) \X (0 .. xN) : p[1] + p[2] + p[3] = xN}
    /\ Len(F_subdivided[xf]) = xN * xN
    /\ \A t \in 1 .. Len(F_subdivided[xf]) :
          /\ Cardinality(Range(F_subdivided[xf][t])) = 3
          /\ Range(F_subdivided[xf][t]) \subseteq 0 .. (Len(V_subdivided[xf]) - 1)
          /\ \A a, b \in Range(F_subdivided[xf][t]) :
                a # b => Adjacent(At(V_subdivided[xf], a), At(V_subdivided[xf], b))
          /\ \A s \in 1 .. (t - 1) :
                Range(F_subdivided[xf][s]) # Range(F_subdivided[xf][t])

EveryFaceCut ==
    /\ DOMAIN V_subdivided = DOMAIN F_subdivided
    /\ \A f \in DOMAIN F_subdivided : CutAtLevel(f, FloorLevel(Largest(OverPi(f))))

\* C20: a face subdivided at the level N gets (N+1)(N+2)/2 sub-vertices and
\* N * N sub-triangles; the three indices of a sub-triangle are different,
\* within the list of sub-vertices and of points of the lattice that are
\* neighbours of one another, and no sub-triangle is listed twice
C20_SubdivisionLattice ==
    [][SubdivideFacesOverPi => EveryFaceCut']_vars

\* a face has been cut at the level 2 and another one at the level 3
C20_Witness ==
    /\ \E f \in DOMAIN F_subdivided : Len(F_subdivided[f]) = 4
    /\ \E f \in DOMAIN F_subdivided : Len(F_subdivided[f]) = 9

\* the step is a call of corner_field that returned: a request was counted
\* and the caller holds its U
CornerFieldReturned == calls' = calls + 1 /\ U' # NoU

\* the faces on which the singularities of the request args lie
SingularFacesOfRequest ==
    UNION {IF LocatedFaces(args.singularities[k]) # {}
           THEN LocatedFaces(args.singularities[k])
           ELSE {is_in_face(V_extended, F_f, args.singularities[k])} :
           k \in NonZero}

\* no face is both singular and subdivided, F_over_pi lists no face twice,
\* and it holds the faces outside F_singular with a twin edge over pi/2 in
\* the Theta of the request
OverPiOfThisRequest ==
    /\ Range(F_singular) \cap Range(F_over_pi) = {}
    /\ Cardinality(Range(F_over_pi)) = Len(F_over_pi)
    /\ Range(F_over_pi) = {f \in Idx(F_f) : OverPi(f) # {}} \ Range(F_singular)

\* F_singular holds the faces of the singularities of the last request
SingularOfThisRequest ==
    LastCallReturned => Range(F_singular) = SingularFacesOfRequest

ListsOfThisRequest == OverPiOfThisRequest /\ SingularOfThisRequest

\* C21: when a call of corner_field returns, whatever requests came before,
\* no face is in both F_singular and F_over_pi, F_over_pi has no duplicates,
\* and the two lists are those of this call's singularities and Theta
C21_ListsDisjointAndFresh ==
    /\ []SingularOfThisRequest
    /\ [][CornerFieldReturned => OverPiOfThisRequest']_vars

\* a second request has returned its U, with a singular face that has a twin
\* edge over pi/2 and with subdivided faces
C21_Witness ==
    /\ pc = "ready" /\ calls = 2 /\ U # NoU
    /\ ListsOfThisRequest
    /\ F_over_pi # <<>>
    /\ \E f \in Range(F_singular) : OverPi(f) # {}

\* the corners of the face that are none of its singular points
ProperCorners == {k \in 1 .. Len(Zf) : Zf[k] \notin Range(second_point.Zc)}

C22_EndsWhateverTheDraws == <>(second_point.at = "done")

\* the rows of d1 with an entry other than 0 in the column xc
RowsOn(xc) == {r \in 1 .. Len(d1) : d1[r][xc] # 0}

\* the column xc of d1 has two entries other than 0, a 1 and a -1: for a
\* twin edge in the rows of a face-face and of an edge-face, for a
\* combinatorial edge in the rows of an edge-face and of a vertex-face
ColumnBalanced(xc) ==
    /\ Cardinality(RowsOn(xc)) = 2
    /\ \E r \in RowsOn(xc) : d1[r][xc] = 1
    /\ \E r \in RowsOn(xc) : d1[r][xc] = -1
    /\ \E r \in RowsOn(xc) : r \in EdgeFaceRows
    /\ \E r \in RowsOn(xc) :
          IF xc <= Len(E_twin) THEN r <= Len(F_f) ELSE r \in VertexFaceRows

\* every column of d1 is balanced
ColumnsBalanced == \A c \in 1 .. Len(E_extended) : ColumnBalanced(c)

\* every row of d1 is a closed chain
RowsClosed ==
    \A r \in 1 .. Len(d1) : \A x \in 0 .. (Len(V_extended) - 1) :
        Cardinality(Entering(d1[r], x)) = Cardinality(Leaving(d1[r], x))

\* C23: on a consistently wound closed mesh every extended edge has two
\* entries in its column of d1, a 1 and a -1, in the rows of the two
\* generalized faces it lies between, so that the rows of d1 sum to 0, and
\* every row of d1 is a closed chain
C23_BoundaryOperator ==
    (d1 # <<>> /\ ConsistentlyWound(F)) => (ColumnsBalanced /\ RowsClosed)

\* the part of C23 on the rows alone
C23_RowsClosed == (d1 # <<>> /\ ConsistentlyWound(F)) => RowsClosed

\* the part of C23 on the columns of the twin edges alone
C23_TwinColumnsBalanced ==
    (d1 # <<>> /\ ConsistentlyWound(F)) =>
        \A c \in 1 .. Len(E_twin) : ColumnBalanced(c)

\* the faces the k-th entry of the last request is dealt to
FacesOfEntry(xk) ==
    IF LocatedFaces(args.singularities[xk]) # {}
    THEN LocatedFaces(args.singularities[xk])
    ELSE {is_in_face(V_extended, F_f, args.singularities[xk])}

\* the entries of the last request dealt to the face f, in the order of the
\* request
EntriesOn(xf) ==
    SelectSeq([k \in 1 .. Len(args.indices) |-> k],
              LAMBDA k : args.indices[k] # 0 /\ xf \in FacesOfEntry(k))

\* the two lists of the face f hold what the request listed for f, in the
\* order of the request
ListsInRequestOrder(xf, xentries) ==
    /\ Len(singularities_f[xf]) = Len(xentries)
    /\ Len(indices_f[xf]) = Len(xentries)
    /\ Len(xentries) >= 1
    /\ \A i \in 1 .. Len(xentries) :
          /\ singularities_f[xf][i] = args.singularities[xentries[i]]
          /\ indices_f[xf][i] = args.indices[xentries[i]]

\* C24: after every compute_thetas that returned, F_singular has no face
\* twice, singularities_f and indices_f both have the faces of F_singular
\* as their keys, the two lists of each face have the same length, at least
\* 1, and hold the singularities and the indices of the face in the order
\* the request listed them, and no list of indices_f holds a 0; whatever
\* the calls before, indices_f never holds a 0, so the branch of
\* reconstruct_linear_from_corners that raises on an index 0 is never taken
C24_SingularFaceBookkeeping ==
    /\ LastCallReturned =>
          /\ Cardinality(Range(F_singular)) = Len(F_singular)
          /\ DOMAIN singularities_f = Range(F_singular)
          /\ DOMAIN indices_f = Range(F_singular)
          /\ \A f \in Range(F_singular) :
                /\ ListsInRequestOrder(f, EntriesOn(f))
                /\ 0 \notin Range(indices_f[f])
    /\ \A f \in DOMAIN indices_f : 0 \notin Range(indices_f[f])

\* a request returned that put two different singularities on one face
C24_Witness ==
    /\ LastCallReturned
    /\ \E f \in Range(F_singular) :
          /\ Len(singularities_f[f]) = 2
          /\ singularities_f[f][1] # singularities_f[f][2]
          /\ ListsInRequestOrder(f, EntriesOn(f))

\* a step that calls compute_thetas with singularities and indices of
\* different lengths
MismatchedCall ==
    /\ calls' = calls + 1
    /\ Len(args'.singularities) # Len(args'.indices)

\* C25: compute_thetas called with singularities and indices of different
\* lengths raises before it touches the object: I_F, F_singular,
\* singularities_f, indices_f and V_singular keep the values of the request
\* before, or stay unset, and no Theta is returned
C25_MismatchLeavesState ==
    [][MismatchedCall =>
          /\ err' = "LengthMismatch"
          /\ UNCHANGED <<I_F, F_singular, singularities_f, indices_f,
                         V_singular, attrs>>
          /\ Theta' = <<>>]_vars

\* a call with different lengths raised on an object that holds the singular
\* faces of the request before
C25_Witness ==
    /\ calls = 2
    /\ Len(args.singularities) # Len(args.indices)
    /\ err = "LengthMismatch"
    /\ Theta = <<>>
    /\ F_singular # <<>>
    /\ DOMAIN indices_f = Range(F_singular)
    /\ "F_singular" \in attrs

\* a call with different lengths raised on an object that never had a
\* request: the five fields are still unset
C25_FirstCallCase ==
    /\ calls = 1
    /\ err = "LengthMismatch"
    /\ {"I_F", "F_singular", "singularities_f", "indices_f", "V_singular"}
           \cap attrs = {}

====
